---- MODULE Spec2Model ----
(***************************************************************************)
(* A model of the A2A agent coordination code:                             *)
(*   - TaskManager   (src/A2A/protocol/task.py)                            *)
(*   - AgentRegistry (src/A2A/registry/registry.py) over a DynamoDB table  *)
(*   - BaseAgent     (src/A2A/agents/base_agent.py) and its message loop   *)
(* Each specification exercises one component.  The variables of the       *)
(* components a specification does not exercise keep their initial values. *)
(***************************************************************************)
EXTENDS Integers, Sequences, FiniteSets, TLC

VARIABLES
    tasks,              \* TaskManager.tasks: task_id -> Task
    execution_history,  \* TaskManager.execution_history: task_id -> list of entries
    task_handlers,      \* TaskManager.task_handlers: the capability types with a handler
    tm_exec,            \* callers inside execute_task, blocked in handler(task.parameters)
    table,              \* the DynamoDB table of AgentRegistry: agent_id -> item
    replaced,           \* history variable: the capability_types of the item that the
                        \* last call, a register_agent, found under its agent_id
    cleanup,            \* the caller inside cleanup_inactive_agents: its locals
    now,                \* datetime.utcnow(), as a logical clock
    ret,                \* what the last finished call returned
    agent,              \* the fields of one BaseAgent: is_registered, is_running,
                        \* tasks_completed, tasks_failed, task_handlers
    loop,               \* where the coroutine of BaseAgent.start is, and its locals
    sent,               \* the messages send_message put on the queue during the
                        \* last process_message
    executed            \* history variable: task_id -> how often a task handler
                        \* was invoked for it

vars == <<tasks, execution_history, task_handlers, tm_exec, table, replaced, cleanup,
          now, ret, agent, loop, sent, executed>>
taskVars == <<tasks, execution_history, task_handlers, tm_exec>>
regVars == <<table, replaced, cleanup>>
agentVars == <<agent, loop, sent, executed>>

(***************************************************************************)
(* Bounds of the model.                                                    *)
(***************************************************************************)
MaxTime == 1        \* the clock runs over 0..MaxTime
MaxHist == 2        \* no call is started on a task whose history has MaxHist entries
MaxInFlight == 1    \* at most MaxInFlight callers are inside execute_task at once
MaxResults == 2     \* discover_agents is called with max_results in 1..MaxResults

(***************************************************************************)
(* Values.                                                                 *)
(***************************************************************************)
None == "None"        \* Python's None
Absent == "Absent"    \* a keyword argument / table attribute that is not there

TaskIds == {"t1"}
RequestTaskIds == {"t1", "t2"}    \* the task ids of the task requests an agent receives
AgentIds == {"a1", "a2"}
Results == {"r1"}                 \* what a handler may return, e.g. {"x": 1}
ErrorMsgs == {"e1"}               \* str(e) of what a handler may raise
CancelReason == "Cancelled by user"

PENDING == "pending"
IN_PROGRESS == "in_progress"
COMPLETED == "completed"
FAILED == "failed"
CANCELLED == "cancelled"
TaskStatus == {PENDING, IN_PROGRESS, COMPLETED, FAILED, CANCELLED}

TEXT_PROCESSING == "text_processing"
DATA_ANALYSIS == "data_analysis"
CapabilityType == {TEXT_PROCESSING, DATA_ANALYSIS}

\* the capability types register_task_handler is called with
HandlerTypes == {TEXT_PROCESSING}

\* the required_capabilities lists that create_task is called with
CapLists == {<<DATA_ANALYSIS, TEXT_PROCESSING>>}

Ret(op, t, a, ok, val) == [op |-> op, task |-> t, agent |-> a, ok |-> ok, val |-> val]

(***************************************************************************)
(* TaskManager                                                             *)
(***************************************************************************)

\* Task(...) as built by create_task: the defaults of the Task model.  Of the
\* two time fields only updated_at, the one the status updates write, is kept.
NewTask(caps) ==
    [ required_capabilities |-> caps,
      assigned_to |-> None,
      status |-> PENDING,
      updated_at |-> now,
      result |-> None,
      error_message |-> None ]

\* the keyword arguments of update_task_status
Kwargs(result, error_message, assigned_to, updated_by) ==
    [ result |-> result, error_message |-> error_message,
      assigned_to |-> assigned_to, updated_by |-> updated_by ]

\* (mutant) update_task_status that writes the status but drops the result
UpdatedTaskNoResult(task, status, kw) ==
    [ task EXCEPT
        !.status = status,
        !.updated_at = now,
        !.error_message = IF kw.error_message = Absent THEN @ ELSE kw.error_message,
        !.assigned_to = IF kw.assigned_to = Absent THEN @ ELSE kw.assigned_to ]

\* the task after update_task_status wrote status, updated_at and the given fields
UpdatedTask(task, status, kw) ==
    [ task EXCEPT
        !.status = status,
        !.updated_at = now,
        !.result = IF kw.result = Absent THEN @ ELSE kw.result,
        !.error_message = IF kw.error_message = Absent THEN @ ELSE kw.error_message,
        !.assigned_to = IF kw.assigned_to = Absent THEN @ ELSE kw.assigned_to ]

\* the entry update_task_status appends to the execution history: its status and
\* updated_by (its timestamp is the updated_at written by the same call)
HistoryEntry(status, kw) ==
    [ status |-> status,
      updated_by |-> IF kw.updated_by = Absent THEN "system" ELSE kw.updated_by ]

\* (mutant) update_task_status that logs nothing when the status is the one
\* already logged last
UpdatedHistoryDedup(hist, status, kw) ==
    IF hist # <<>> /\ hist[Len(hist)].status = status
    THEN hist
    ELSE Append(hist, HistoryEntry(status, kw))

\* the history of task t after update_task_status(t, status, **kw)
UpdatedHistory(hist, status, kw) == Append(hist, HistoryEntry(status, kw))

\* update_task_status returns False exactly when get_task finds nothing
UpdateReturns(t) == t \in DOMAIN tasks

\* the effect of update_task_status(t, status, **kw) on the store
update_task_status(t, status, kw) ==
    IF t \in DOMAIN tasks
    THEN /\ tasks' = [tasks EXCEPT ![t] = UpdatedTask(tasks[t], status, kw)]
         /\ execution_history' =
              [execution_history EXCEPT ![t] = UpdatedHistory(@, status, kw)]
    ELSE UNCHANGED <<tasks, execution_history>>

\* the model starts no further call on a task whose history has MaxHist entries
\* (a call already inside execute_task still finishes)
HistRoom(t) == t \in DOMAIN tasks => Len(execution_history[t]) < MaxHist

Tick ==
    /\ now < MaxTime
    /\ now' = now + 1
    /\ UNCHANGED <<taskVars, regVars, ret, agentVars>>

CreateTask(t, caps) ==
    /\ tasks' = [x \in DOMAIN tasks \cup {t} |-> IF x = t THEN NewTask(caps) ELSE tasks[x]]
    /\ execution_history' =
         [x \in DOMAIN execution_history \cup {t} |->
             IF x = t THEN <<>> ELSE execution_history[x]]
    /\ ret' = Ret("create_task", t, None, TRUE, None)
    /\ UNCHANGED <<task_handlers, tm_exec, regVars, now, agentVars>>

UpdateTaskStatus(t, status, kw) ==
    /\ HistRoom(t)
    /\ ret' = Ret("update_task_status", t, kw.updated_by, UpdateReturns(t), status)
    /\ update_task_status(t, status, kw)
    /\ UNCHANGED <<task_handlers, tm_exec, regVars, now, agentVars>>

AssignTask(t, a) ==
    /\ HistRoom(t)
    /\ ret' = Ret("assign_task", t, a, UpdateReturns(t), None)
    /\ update_task_status(t, IN_PROGRESS, Kwargs(Absent, Absent, a, "system"))
    /\ UNCHANGED <<task_handlers, tm_exec, regVars, now, agentVars>>

CompleteTask(t, r, a) ==
    /\ HistRoom(t)
    /\ ret' = Ret("complete_task", t, a, UpdateReturns(t), r)
    /\ update_task_status(t, COMPLETED, Kwargs(r, Absent, Absent, a))
    /\ UNCHANGED <<task_handlers, tm_exec, regVars, now, agentVars>>

FailTask(t, e, a) ==
    /\ HistRoom(t)
    /\ ret' = Ret("fail_task", t, a, UpdateReturns(t), e)
    /\ update_task_status(t, FAILED, Kwargs(Absent, e, Absent, a))
    /\ UNCHANGED <<task_handlers, tm_exec, regVars, now, agentVars>>

CancelTask(t) ==
    /\ HistRoom(t)
    /\ ret' = Ret("cancel_task", t, None, UpdateReturns(t), CancelReason)
    /\ update_task_status(t, CANCELLED, Kwargs(Absent, CancelReason, Absent, "system"))
    /\ UNCHANGED <<task_handlers, tm_exec, regVars, now, agentVars>>

RegisterTaskHandler(c) ==
    /\ c \notin task_handlers
    /\ task_handlers' = task_handlers \cup {c}
    /\ UNCHANGED <<tasks, execution_history, tm_exec, regVars, now, ret, agentVars>>

\* the first required capability that has a handler, or None
RECURSIVE FindHandler(_)
FindHandler(caps) ==
    IF caps = <<>> THEN None
    ELSE IF Head(caps) \in task_handlers THEN Head(caps)
    ELSE FindHandler(Tail(caps))

\* the error execute_task returns before it calls any handler, or None
ExecuteRefusal(t, a) ==
    IF t \notin DOMAIN tasks THEN "Task not found"
    ELSE IF tasks[t].status # IN_PROGRESS THEN "Task is not in progress"
    ELSE IF tasks[t].assigned_to # a THEN "Task not assigned to this agent"
    ELSE IF FindHandler(tasks[t].required_capabilities) = None
         THEN "No handler found for required capabilities"
    ELSE None

\* execute_task up to and including the call handler(task.parameters)
ExecuteBegin(t, a) ==
    /\ a \notin DOMAIN tm_exec
    /\ Cardinality(DOMAIN tm_exec) < MaxInFlight
    /\ IF ExecuteRefusal(t, a) # None
       THEN /\ ret' = Ret("execute_task", t, a, FALSE, ExecuteRefusal(t, a))
            /\ UNCHANGED tm_exec
       ELSE /\ tm_exec' = [x \in DOMAIN tm_exec \cup {a} |->
                             IF x = a
                             THEN [ task_id |-> t,
                                    handler |-> FindHandler(tasks[t].required_capabilities),
                                    calls |-> 1 ]
                             ELSE tm_exec[x]]
            /\ UNCHANGED ret
    /\ UNCHANGED <<tasks, execution_history, task_handlers, regVars, now, agentVars>>

\* the handler returned r: complete_task and the success result
ExecuteReturn(a, r) ==
    /\ a \in DOMAIN tm_exec
    /\ ret' = Ret("execute_task", tm_exec[a].task_id, a, TRUE, r)
    /\ update_task_status(tm_exec[a].task_id, COMPLETED, Kwargs(r, Absent, Absent, a))
    /\ tm_exec' = [x \in DOMAIN tm_exec \ {a} |-> tm_exec[x]]
    /\ UNCHANGED <<task_handlers, regVars, now, agentVars>>

\* the handler raised an exception whose message is e: fail_task and the error result
ExecuteRaise(a, e) ==
    /\ a \in DOMAIN tm_exec
    /\ ret' = Ret("execute_task", tm_exec[a].task_id, a, FALSE, e)
    /\ update_task_status(tm_exec[a].task_id, FAILED, Kwargs(Absent, e, Absent, a))
    /\ tm_exec' = [x \in DOMAIN tm_exec \ {a} |-> tm_exec[x]]
    /\ UNCHANGED <<task_handlers, regVars, now, agentVars>>

\* the generic update_task_status(task_id, status) is called with a status only;
\* keyword arguments reach it through assign, complete, fail and cancel
KwargsSet == { Kwargs(Absent, Absent, Absent, Absent) }

\* no caller is inside cleanup_inactive_agents
NoCleanup ==
    [ running |-> FALSE, cutoff |-> 0, inactive_agents |-> <<>>, next |-> 1,
      failed |-> {}, deleted_count |-> 0 ]

EmptyMap == [x \in {} |-> None]

\* BaseAgent.__init__: the agent state and the performance metrics; registry
\* says whether self.registry is set (a registry_table was given)
NewAgent ==
    [ registry |-> TRUE, is_registered |-> FALSE, is_running |-> FALSE,
      tasks_completed |-> 0, tasks_failed |-> 0, task_handlers |-> {} ]

\* start() has not been called: pc is the position in start(), messages the
\* list receive_messages returned, next the position of the for loop in it
NotStarted == [pc |-> "init", messages |-> <<>>, next |-> 1]

InitTask ==
    /\ tasks = EmptyMap
    /\ execution_history = EmptyMap
    /\ task_handlers = {}
    /\ tm_exec = EmptyMap
    /\ table = {}
    /\ replaced = {}
    /\ cleanup = NoCleanup
    /\ now = 0
    /\ ret = Ret("init", None, None, TRUE, None)
    /\ agent = NewAgent
    /\ loop = NotStarted
    /\ sent = <<>>
    /\ executed = [t \in RequestTaskIds |-> 0]

NextTask ==
    \/ Tick
    \/ \E t \in TaskIds, caps \in CapLists : CreateTask(t, caps)
    \/ \E t \in TaskIds, a \in AgentIds : AssignTask(t, a)
    \/ \E t \in TaskIds, r \in Results, a \in AgentIds : CompleteTask(t, r, a)
    \/ \E t \in TaskIds, e \in ErrorMsgs, a \in AgentIds : FailTask(t, e, a)
    \/ \E t \in TaskIds : CancelTask(t)
    \/ \E c \in HandlerTypes : RegisterTaskHandler(c)
    \/ \E t \in TaskIds, a \in AgentIds : ExecuteBegin(t, a)
    \/ \E a \in AgentIds, r \in Results : ExecuteReturn(a, r)
    \/ \E a \in AgentIds, e \in ErrorMsgs : ExecuteRaise(a, e)
    \/ \E t \in TaskIds, s \in TaskStatus, kw \in KwargsSet : UpdateTaskStatus(t, s, kw)

SpecTask == InitTask /\ [][NextTask]_vars

(***************************************************************************)
(* TaskManager: two tasks and cleanup_completed_tasks (SpecPurge).  The    *)
(* clock counts days here.                                                  *)
(***************************************************************************)

\* the days_old values cleanup_completed_tasks is called with
PurgeDays == {0, 1}

\* the agent the tasks are assigned to under SpecPurge; the tasks of TaskIds
\* reach every status, the other tasks are created and assigned only
PurgeAgent == "a1"

\* (mutant) a test that looks at the age of the task only
PurgeableAnyStatus(task, cutoff_date) == task.updated_at < cutoff_date

\* the test of cleanup_completed_tasks on one task
Purgeable(task, cutoff_date) ==
    /\ task.status \in {COMPLETED, CANCELLED, FAILED}
    /\ task.updated_at < cutoff_date

\* cleanup_completed_tasks(days_old): the tasks to remove are collected, they
\* and their execution histories are deleted, their number is returned
CleanupCompletedTasks(days_old) ==
    LET cutoff_date == now - days_old
        tasks_to_remove == {t \in DOMAIN tasks : Purgeable(tasks[t], cutoff_date)}
    IN  /\ ret' = Ret("cleanup_completed_tasks", None, None, TRUE,
                      Cardinality(tasks_to_remove))
        /\ tasks' = [t \in DOMAIN tasks \ tasks_to_remove |-> tasks[t]]
        /\ execution_history' =
              [t \in DOMAIN execution_history \ tasks_to_remove |-> execution_history[t]]
        /\ UNCHANGED <<task_handlers, tm_exec, regVars, now, agentVars>>

InitPurge == InitTask

NextPurge ==
    \/ Tick
    \/ \E t \in RequestTaskIds, caps \in CapLists : CreateTask(t, caps)
    \/ \E t \in RequestTaskIds : AssignTask(t, PurgeAgent)
    \/ \E t \in TaskIds, r \in Results : CompleteTask(t, r, PurgeAgent)
    \/ \E t \in TaskIds, e \in ErrorMsgs : FailTask(t, e, PurgeAgent)
    \/ \E t \in TaskIds : CancelTask(t)
    \/ \E days_old \in PurgeDays : CleanupCompletedTasks(days_old)

SpecPurge == InitPurge /\ [][NextPurge]_vars

TaskTypeOK ==
    /\ DOMAIN tasks \subseteq TaskIds
    /\ DOMAIN execution_history = DOMAIN tasks
    /\ \A t \in DOMAIN tasks : tasks[t].status \in TaskStatus

(***************************************************************************)
(* AgentRegistry over its DynamoDB table.  The table is a set of items; an *)
(* item is a function from attribute names to values and agent_id is the   *)
(* table's key.                                                            *)
(***************************************************************************)

\* str.lower() on the strings of the model
Lower(str) ==
    CASE str = "NYC" -> "nyc"
      [] str = "GPU" -> "gpu"
      [] OTHER -> str

\* str.strip() on the strings of the model
Strip(str) == IF str = " " THEN "" ELSE str

\* the elements of a list
Range(seq) == {seq[n] : n \in DOMAIN seq}

\* a Capability, cap.dict(): its type, name and description
CapabilityOf(type, name, description) ==
    [type |-> type, name |-> name, description |-> description]

\* a Capability with a name and a description
Capability(type) == CapabilityOf(type, "cap", "does it")

\* what an agent card says besides its agent_id and created_at; success_rate
\* is in percent, and every card of the model has one (none is None)
Shape(name, description, capabilities, location, tags, success_rate, max_concurrent_tasks) ==
    [ name |-> name, description |-> description, capabilities |-> capabilities,
      location |-> location, tags |-> tags,
      success_rate |-> success_rate, max_concurrent_tasks |-> max_concurrent_tasks ]

\* the agent cards register_agent is called with under SpecRegistry: they
\* differ in location, tags and capabilities
CardShapes ==
    { Shape("agent", "desc", <<Capability(TEXT_PROCESSING)>>, None, {}, 100, 5),
      Shape("agent", "desc", <<Capability(TEXT_PROCESSING), Capability(DATA_ANALYSIS)>>,
            "NYC", {"GPU"}, 100, 5),
      Shape("agent", "desc", <<>>, None, {}, 100, 5) }

\* the times at which the cards registered under SpecRegistry were built
CardTimes == {0}

\* an AgentCard built at time created
AgentCard(id, shape, created) ==
    [ agent_id |-> id,
      name |-> shape.name,
      description |-> shape.description,
      capabilities |-> shape.capabilities,
      location |-> shape.location,
      tags |-> shape.tags,
      created_at |-> created,
      success_rate |-> shape.success_rate,
      max_concurrent_tasks |-> shape.max_concurrent_tasks ]

\* f"Capability {i+1} must have a name", for the list positions of the model
CapabilityNameError(n) ==
    CASE n = 1 -> "Capability 1 must have a name"
      [] n = 2 -> "Capability 2 must have a name"
      [] OTHER -> "Capability n must have a name"

\* f"Capability {i+1} must have a description"
CapabilityDescriptionError(n) ==
    CASE n = 1 -> "Capability 1 must have a description"
      [] n = 2 -> "Capability 2 must have a description"
      [] OTHER -> "Capability n must have a description"

\* the errors of the loop over card.capabilities, from position n on
RECURSIVE CapabilityErrors(_, _)
CapabilityErrors(caps, n) ==
    IF n > Len(caps) THEN <<>>
    ELSE (IF Strip(caps[n].name) = "" THEN <<CapabilityNameError(n)>> ELSE <<>>)
         \o (IF Strip(caps[n].description) = ""
             THEN <<CapabilityDescriptionError(n)>> ELSE <<>>)
         \o CapabilityErrors(caps, n + 1)

\* (mutant) a validation that returns at the first rule it finds violated
validate_agent_card_first(card) ==
    LET all == (IF Strip(card.name) = "" THEN <<"Agent name is required">> ELSE <<>>)
               \o (IF Strip(card.description) = ""
                   THEN <<"Agent description is required">> ELSE <<>>)
               \o (IF card.capabilities = <<>>
                   THEN <<"At least one capability is required">> ELSE <<>>)
               \o CapabilityErrors(card.capabilities, 1)
               \o (IF card.success_rate < 0 \/ card.success_rate > 100
                   THEN <<"Success rate must be between 0 and 1">> ELSE <<>>)
               \o (IF card.max_concurrent_tasks < 1
                   THEN <<"Max concurrent tasks must be at least 1">> ELSE <<>>)
    IN  IF all = <<>> THEN <<>> ELSE <<Head(all)>>

\* validate_agent_card: the list of the messages of all violated rules
validate_agent_card(card) ==
    (IF Strip(card.name) = "" THEN <<"Agent name is required">> ELSE <<>>)
    \o (IF Strip(card.description) = ""
        THEN <<"Agent description is required">> ELSE <<>>)
    \o (IF card.capabilities = <<>>
        THEN <<"At least one capability is required">> ELSE <<>>)
    \o CapabilityErrors(card.capabilities, 1)
    \o (IF card.success_rate < 0 \/ card.success_rate > 100
        THEN <<"Success rate must be between 0 and 1">> ELSE <<>>)
    \o (IF card.max_concurrent_tasks < 1
        THEN <<"Max concurrent tasks must be at least 1">> ELSE <<>>)

\* (mutant) a registration that adds the card's capability types and tags to the
\* ones already indexed for that agent_id
RegisteredItemMerged(card) ==
    LET old == {i \in table : i.agent_id = card.agent_id} IN
    [ agent_id |-> card.agent_id,
      capabilities |-> card.capabilities,
      location |-> card.location,
      tags |-> card.tags,
      created_at |-> card.created_at,
      last_seen |-> now,
      status |-> "active",
      capability_types |->
          {cap.type : cap \in Range(card.capabilities)}
              \cup UNION {i.capability_types : i \in old},
      location_index |-> IF card.location # None THEN Lower(card.location) ELSE Absent,
      tag_index |-> {Lower(tag) : tag \in card.tags} \cup UNION {i.tag_index : i \in old} ]

\* the item register_agent builds from a card, with the attributes discovery,
\* updates and cleanup work on; tag_index is the set of the x for which the item
\* has an attribute tag_x = True
RegisteredItem(card) ==
    [ agent_id |-> card.agent_id,
      capabilities |-> card.capabilities,
      location |-> card.location,
      tags |-> card.tags,
      created_at |-> card.created_at,
      last_seen |-> now,
      status |-> "active",
      capability_types |-> {cap.type : cap \in Range(card.capabilities)},
      location_index |-> IF card.location # None THEN Lower(card.location) ELSE Absent,
      tag_index |-> {Lower(tag) : tag \in card.tags} ]

\* DynamoDB put_item: the item replaces whatever item has its key
PutItem(tbl, item) == {i \in tbl : i.agent_id # item.agent_id} \cup {item}

\* DynamoDB delete_item by key; deleting a missing key is no error
DeleteItem(tbl, id) == {i \in tbl : i.agent_id # id}

\* (mutant) an update that stores the caller's last_seen
ExpressionValuesAsGiven(updates) == updates

\* the values update_agent puts into the SET expression: last_seen is always
\* the current time, every other key keeps the caller's value
ExpressionValues(updates) ==
    [k \in DOMAIN updates |-> IF k = "last_seen" THEN now ELSE updates[k]]

\* (mutant) a condition that holds whether or not the item is there
ItemExistsAlways(tbl, id) == TRUE

\* DynamoDB attribute_exists(agent_id) on the item with that key
ItemExists(tbl, id) == \E i \in tbl : i.agent_id = id

\* DynamoDB update_item "SET k = :k, ..." on the item with that key; when no
\* item has the key, update_item creates one from the key and the values
UpdateItem(tbl, id, values) ==
    IF \E i \in tbl : i.agent_id = id
    THEN { IF i.agent_id = id
           THEN [k \in DOMAIN i \cup DOMAIN values |->
                    IF k \in DOMAIN values THEN values[k] ELSE i[k]]
           ELSE i : i \in tbl }
    ELSE tbl \cup { [k \in {"agent_id"} \cup DOMAIN values |->
                        IF k = "agent_id" THEN id ELSE values[k]] }

\* the update dictionaries update_agent is called with
UpdateDicts ==
    { [k \in {"status"} |-> "inactive"],
      [k \in {"capabilities"} |-> <<Capability(DATA_ANALYSIS)>>] }

\* the timeout_minutes values, in ticks of the clock
Timeouts == {0, 1}

RegRet(op, id, ok, val) == Ret(op, None, id, ok, val)

RegisterAgent(id, shape, created) ==
    /\ LET agent_card == AgentCard(id, shape, created)
           validation_errors == validate_agent_card(agent_card)
       IN  IF validation_errors # <<>>
           THEN /\ ret' = RegRet("register_agent", id, FALSE, validation_errors)
                /\ UNCHANGED table
                /\ replaced' = {}
           ELSE /\ ret' = RegRet("register_agent", id, TRUE, id)
                /\ table' = PutItem(table, RegisteredItem(agent_card))
                /\ replaced' = {i.capability_types : i \in {x \in table : x.agent_id = id}}
    /\ UNCHANGED <<taskVars, cleanup, now, agentVars>>

UpdateAgent(id, updates) ==
    /\ IF ItemExists(table, id)
       THEN /\ ret' = RegRet("update_agent", id, TRUE, "Agent updated successfully")
            /\ table' = UpdateItem(table, id, ExpressionValues(updates))
       ELSE /\ ret' = RegRet("update_agent", id, FALSE, "Agent not found")
            /\ UNCHANGED table
    /\ replaced' = {}
    /\ UNCHANGED <<taskVars, cleanup, now, agentVars>>

\* update_agent_heartbeat: update_agent with last_seen
UpdateAgentHeartbeat(id) ==
    /\ IF ItemExists(table, id)
       THEN /\ ret' = RegRet("update_agent_heartbeat", id, TRUE, "Agent updated successfully")
            /\ table' = UpdateItem(table, id,
                                   ExpressionValues([k \in {"last_seen"} |-> now]))
       ELSE /\ ret' = RegRet("update_agent_heartbeat", id, FALSE, "Agent not found")
            /\ UNCHANGED table
    /\ replaced' = {}
    /\ UNCHANGED <<taskVars, cleanup, now, agentVars>>

DeregisterAgent(id) ==
    /\ ret' = RegRet("deregister_agent", id, TRUE, "Agent deregistered successfully")
    /\ table' = DeleteItem(table, id)
    /\ replaced' = {}
    /\ UNCHANGED <<taskVars, cleanup, now, agentVars>>

\* the arguments of discover_agents
DiscoveryQuery(required, optional, location, tags, max_results, active_only) ==
    [ required_capabilities |-> required, optional_capabilities |-> optional,
      location |-> location, tags |-> tags,
      max_results |-> max_results, active_only |-> active_only ]

\* the FilterExpression discover_agents builds, evaluated on one item
FilterExpression(q, item) ==
    /\ \A cap_type \in q.required_capabilities : cap_type \in item.capability_types
    /\ q.location # None => item.location_index = Lower(q.location)
    /\ \A tag \in q.tags : Lower(tag) \in item.tag_index
    /\ q.active_only => item.status = "active"

\* the items of the table in the order in which a scan reads them: the order
\* is the table's business, here a list of the agent_ids
RECURSIVE ScanOrder(_, _)
ScanOrder(tbl, order) ==
    IF order = <<>> THEN <<>>
    ELSE LET here == {i \in tbl : i.agent_id = Head(order)} IN
         (IF here = {} THEN <<>> ELSE <<CHOOSE i \in here : TRUE>>)
             \o ScanOrder(tbl, Tail(order))

\* the first limit elements of seq
Take(seq, limit) == SubSeq(seq, 1, IF Len(seq) < limit THEN Len(seq) ELSE limit)

\* DynamoDB scan with Limit and FilterExpression: Limit bounds the number of
\* items the scan evaluates, before the filter is applied.  The items evaluated:
ScanEvaluated(tbl, order, limit) == Take(ScanOrder(tbl, order), limit)

\* the evaluated items that pass the filter: Items of the scan response
RECURSIVE ScanItems(_, _)
ScanItems(q, evaluated) ==
    IF evaluated = <<>> THEN <<>>
    ELSE (IF FilterExpression(q, Head(evaluated)) THEN <<Head(evaluated)>> ELSE <<>>)
             \o ScanItems(q, Tail(evaluated))

\* agents.sort(key = last_seen, reverse = True): a stable sort, most recently
\* seen first
RECURSIVE InsertByLastSeen(_, _)
InsertByLastSeen(sorted, item) ==
    IF sorted = <<>> THEN <<item>>
    ELSE IF Head(sorted).last_seen >= item.last_seen
         THEN <<Head(sorted)>> \o InsertByLastSeen(Tail(sorted), item)
         ELSE <<item>> \o sorted

RECURSIVE SortByLastSeen(_)
SortByLastSeen(seq) ==
    IF seq = <<>> THEN <<>>
    ELSE InsertByLastSeen(SortByLastSeen(SubSeq(seq, 1, Len(seq) - 1)), seq[Len(seq)])

\* the agent_ids of a list of items
RECURSIVE IdsOf(_)
IdsOf(seq) == IF seq = <<>> THEN <<>> ELSE <<Head(seq).agent_id>> \o IdsOf(Tail(seq))

\* the orders in which a scan may read the table
ScanOrders == { order \in [1..Cardinality(AgentIds) -> AgentIds] :
                  \A id \in AgentIds : \E n \in DOMAIN order : order[n] = id }

\* discover_agents(q) when the scan reads the table in the given order; the
\* result lists the agents by agent_id
DiscoverAgents(q, order) ==
    LET evaluated == ScanEvaluated(table, order, q.max_results)
        agents == SortByLastSeen(ScanItems(q, evaluated))
    IN  /\ ret' = RegRet("discover_agents", None, TRUE,
                         [ query |-> q,
                           agents |-> IdsOf(agents),
                           total_found |-> Len(agents),
                           scanned_count |-> Len(evaluated) ])
        /\ replaced' = {}
        /\ UNCHANGED <<taskVars, table, cleanup, now, agentVars>>

\* the queries discover_agents is called with: the required capabilities with
\* optional ones, with or without a location and a tag, max_results, active_only
Queries ==
    { DiscoveryQuery(caps[1], caps[2], filter[1], filter[2], n, act) :
        caps \in { <<{TEXT_PROCESSING}, {DATA_ANALYSIS}>>,
                   <<{TEXT_PROCESSING, DATA_ANALYSIS}, {}>> },
        filter \in { <<None, {}>>, <<"nyc", {"gpu"}>> },
        n \in 1..MaxResults,
        act \in BOOLEAN }

InitRegistry == InitTask

NextRegistry ==
    \/ Tick
    \/ \E id \in AgentIds, shape \in CardShapes, created \in CardTimes :
          RegisterAgent(id, shape, created)
    \/ \E id \in AgentIds, updates \in UpdateDicts : UpdateAgent(id, updates)
    \/ \E id \in AgentIds : UpdateAgentHeartbeat(id)
    \/ \E id \in AgentIds : DeregisterAgent(id)
    \/ \E q \in Queries, order \in ScanOrders : DiscoverAgents(q, order)

SpecRegistry == InitRegistry /\ [][NextRegistry]_vars

(***************************************************************************)
(* AgentRegistry: liveness cleanup (SpecLifecycle), reads and calls whose   *)
(* store call fails (SpecStore).  One tick of the clock is one minute.     *)
(***************************************************************************)

\* datetime.isoformat() of the time t, a whole number of minutes after 00:59
\* of some day: of the string the digits of "HH:MM" are kept, the date before
\* them and the ":00" after them being the same in all strings
IsoFormat(t) ==
    LET minutes == 59 + t
        hh == minutes \div 60
        mm == minutes % 60
    IN  <<hh \div 10, hh % 10, mm \div 10, mm % 10>>

\* a < b on strings, as DynamoDB compares string attributes: by the first
\* position in which they differ, a proper prefix being the smaller
RECURSIVE StrLess(_, _)
StrLess(a, b) ==
    IF b = <<>> THEN FALSE
    ELSE IF a = <<>> THEN TRUE
    ELSE IF Head(a) = Head(b) THEN StrLess(Tail(a), Tail(b))
    ELSE Head(a) < Head(b)

\* (mutant) a filter that also selects the items last seen at the cutoff
CleanupFilterAtCutoff(item, cutoff) ==
    ~ StrLess(IsoFormat(cutoff), IsoFormat(item.last_seen))

\* the FilterExpression 'last_seen < :cutoff' of cleanup_inactive_agents on one
\* item; last_seen was stored as an isoformat string, :cutoff is one
CleanupFilter(item, cutoff) ==
    StrLess(IsoFormat(item.last_seen), IsoFormat(cutoff))

\* the scanned items that pass the cleanup filter
RECURSIVE CleanupItems(_, _)
CleanupItems(cutoff, scanned) ==
    IF scanned = <<>> THEN <<>>
    ELSE (IF CleanupFilter(Head(scanned), cutoff) THEN <<Head(scanned)>> ELSE <<>>)
             \o CleanupItems(cutoff, Tail(scanned))

\* cleanup_inactive_agents(timeout), up to its scan: the cutoff is computed and
\* the scan returns the inactive agents, kept here by agent_id
CleanupScan(timeout, order) ==
    /\ ~ cleanup.running
    /\ cleanup' =
          [ running |-> TRUE,
            cutoff |-> now - timeout,
            inactive_agents |-> IdsOf(CleanupItems(now - timeout, ScanOrder(table, order))),
            next |-> 1,
            failed |-> {},
            deleted_count |-> 0 ]
    /\ replaced' = {}
    /\ UNCHANGED <<taskVars, table, now, ret, agentVars>>

\* one round of the loop over inactive_agents in which delete_item succeeds
CleanupDelete ==
    /\ cleanup.running
    /\ cleanup.next <= Len(cleanup.inactive_agents)
    /\ table' = DeleteItem(table, cleanup.inactive_agents[cleanup.next])
    /\ cleanup' = [cleanup EXCEPT !.next = @ + 1, !.deleted_count = @ + 1]
    /\ replaced' = {}
    /\ UNCHANGED <<taskVars, now, ret, agentVars>>

\* the exceptions a call on the DynamoDB table may raise: ClientError (the
\* service answered with an error) and NoCredentialsError, one of botocore's
\* exceptions for a request that got no answer, which is not a ClientError
StoreErrors == {"ClientError", "NoCredentialsError"}

\* what the caller of an operation gets when an exception leaves the operation
Propagated == "exception propagated"

\* one round of the loop in which delete_item raises err: a ClientError is
\* passed over, any other exception leaves the loop and the operation
CleanupDeleteFails(err) ==
    /\ cleanup.running
    /\ cleanup.next <= Len(cleanup.inactive_agents)
    /\ IF err = "ClientError"
       THEN /\ cleanup' = [cleanup EXCEPT
                              !.next = @ + 1,
                              !.failed = @ \cup {cleanup.inactive_agents[cleanup.next]}]
            /\ UNCHANGED ret
       ELSE /\ cleanup' = NoCleanup
            /\ ret' = RegRet("cleanup_inactive_agents", None, FALSE, Propagated)
    /\ replaced' = {}
    /\ UNCHANGED <<taskVars, table, now, agentVars>>

\* the loop is over: cleanup_inactive_agents returns its counts
CleanupReturn ==
    /\ cleanup.running
    /\ cleanup.next > Len(cleanup.inactive_agents)
    /\ ret' = RegRet("cleanup_inactive_agents", None, TRUE,
                     [ deleted_count |-> cleanup.deleted_count,
                       total_inactive |-> Len(cleanup.inactive_agents) ])
    /\ cleanup' = NoCleanup
    /\ replaced' = {}
    /\ UNCHANGED <<taskVars, table, now, agentVars>>

\* get_agent(id): the Item of the response, here its agent_id, or None
GetAgent(id) ==
    /\ ret' = RegRet("get_agent", id, ItemExists(table, id),
                     IF ItemExists(table, id) THEN id ELSE None)
    /\ replaced' = {}
    /\ UNCHANGED <<taskVars, table, cleanup, now, agentVars>>

\* list_all_agents(active_only): the agents are listed by agent_id
ListAllAgents(active_only) ==
    LET agents == {i \in table : active_only => i.status = "active"}
    IN  /\ ret' = RegRet("list_all_agents", None, TRUE,
                         [ agents |-> {i.agent_id : i \in agents},
                           total_count |-> Cardinality(agents) ])
        /\ replaced' = {}
        /\ UNCHANGED <<taskVars, table, cleanup, now, agentVars>>

\* get_agent_statistics()
GetAgentStatistics ==
    LET active == {i \in table : i.status = "active"}
        types == UNION {i.capability_types : i \in table}
        locations == {i.location : i \in table}
    IN  /\ ret' = RegRet("get_agent_statistics", None, TRUE,
                         [ total_agents |-> Cardinality(table),
                           active_agents |-> Cardinality(active),
                           inactive_agents |-> Cardinality(table) - Cardinality(active),
                           capability_distribution |->
                               [c \in types |->
                                   Cardinality({i \in table : c \in i.capability_types})],
                           location_distribution |->
                               [l \in locations |->
                                   Cardinality({i \in table : i.location = l})] ])
        /\ replaced' = {}
        /\ UNCHANGED <<taskVars, table, cleanup, now, agentVars>>

\* the operations of the registry that make one call on the table, or (cleanup)
\* a first call
StoreOps ==
    { "register_agent", "update_agent", "update_agent_heartbeat", "deregister_agent",
      "get_agent", "discover_agents", "list_all_agents", "cleanup_inactive_agents",
      "get_agent_statistics" }

\* the operations that take an agent_id (register_agent takes it in the card)
KeyedOps ==
    { "register_agent", "update_agent", "update_agent_heartbeat", "deregister_agent",
      "get_agent" }

\* what the operation gives its caller when that call on the table raises err
\* (for update_agent a ClientError other than the failed condition): the text
\* before the exception's own message, None for get_agent, or the exception
FailureResult(op, err) ==
    CASE op = "register_agent" ->
             IF err = "ClientError" THEN "DynamoDB error" ELSE "Registration failed"
      [] err # "ClientError" -> Propagated
      [] op \in {"update_agent", "update_agent_heartbeat"} -> "Update failed"
      [] op = "deregister_agent" -> "Deregistration failed"
      [] op = "get_agent" -> None
      [] op = "discover_agents" -> "Discovery failed"
      [] op = "list_all_agents" -> "Failed to list agents"
      [] op = "cleanup_inactive_agents" -> "Cleanup failed"
      [] OTHER -> "Failed to get statistics"

\* operation op (register_agent: with a valid card) whose call on the table
\* raises err: nothing is written
StoreFails(op, id, err) ==
    /\ (id = None) = (op \notin KeyedOps)
    /\ op = "cleanup_inactive_agents" => ~ cleanup.running
    /\ ret' = RegRet(op, id, FALSE, FailureResult(op, err))
    /\ replaced' = {}
    /\ UNCHANGED <<taskVars, table, cleanup, now, agentVars>>

\* the created_at of the cards registered under SpecLifecycle: any time of the
\* clock (a card is built by its agent, or from a dictionary by from_dict)
LifeCardTimes == 0..MaxTime

\* the agent cards register_agent is called with under SpecLifecycle and
\* SpecStore
LifeShapes == { Shape("agent", "desc", <<Capability(TEXT_PROCESSING)>>, None, {}, 100, 5) }

\* the update dictionaries update_agent is called with under SpecLifecycle: a
\* status, and a last_seen of the caller's
LifeUpdateDicts ==
    { [k \in {"status"} |-> "inactive"],
      [k \in {"last_seen"} |-> 0] }

InitLifecycle == InitTask

NextLifecycle ==
    \/ Tick
    \/ \E id \in AgentIds, shape \in LifeShapes, created \in LifeCardTimes :
          RegisterAgent(id, shape, created)
    \/ \E id \in AgentIds, updates \in LifeUpdateDicts : UpdateAgent(id, updates)
    \/ \E id \in AgentIds : UpdateAgentHeartbeat(id)
    \/ \E id \in AgentIds : DeregisterAgent(id)
    \/ \E timeout \in Timeouts, order \in ScanOrders : CleanupScan(timeout, order)
    \/ CleanupDelete
    \/ \E err \in StoreErrors : CleanupDeleteFails(err)
    \/ CleanupReturn

SpecLifecycle == InitLifecycle /\ [][NextLifecycle]_vars

(***************************************************************************)
(* AgentRegistry: every operation with a store that may fail (SpecStore).  *)
(***************************************************************************)

\* the update dictionaries update_agent is called with under SpecStore
StoreUpdateDicts == { [k \in {"status"} |-> "inactive"] }

InitStore == InitTask

NextStore ==
    \/ \E id \in AgentIds, shape \in LifeShapes, created \in CardTimes :
          RegisterAgent(id, shape, created)
    \/ \E id \in AgentIds, updates \in StoreUpdateDicts : UpdateAgent(id, updates)
    \/ \E id \in AgentIds : DeregisterAgent(id)
    \/ \E id \in AgentIds : GetAgent(id)
    \/ \E active_only \in BOOLEAN : ListAllAgents(active_only)
    \/ GetAgentStatistics
    \/ \E op \in StoreOps, id \in AgentIds \cup {None}, err \in StoreErrors :
          StoreFails(op, id, err)

SpecStore == InitStore /\ [][NextStore]_vars

(***************************************************************************)
(* AgentRegistry: registration of cards that violate validation rules      *)
(* (SpecValidation).                                                       *)
(***************************************************************************)

\* the agent cards register_agent is called with under SpecValidation: every
\* combination of a good or empty name, a good or blank description, no
\* capability, a good one, or a good one followed by one without name and with
\* a blank description, a success rate of 100, 150 or -10 percent, and 5 or 0
\* concurrent tasks
Names == {"agent", ""}
Descriptions == {"desc", " "}
CapabilityLists ==
    { <<>>,
      <<Capability(TEXT_PROCESSING)>>,
      <<Capability(TEXT_PROCESSING), CapabilityOf(DATA_ANALYSIS, "", " ")>> }
SuccessRates == {100, 150, -10}
ConcurrentTasks == {5, 0}

ValidationShapes ==
    { Shape(name, description, capabilities, None, {}, success_rate, max_concurrent_tasks) :
        name \in Names,
        description \in Descriptions,
        capabilities \in CapabilityLists,
        success_rate \in SuccessRates,
        max_concurrent_tasks \in ConcurrentTasks }

InitValidation == InitTask

NextValidation ==
    \/ \E id \in AgentIds, shape \in ValidationShapes, created \in CardTimes :
          RegisterAgent(id, shape, created)
    \/ \E id \in AgentIds : DeregisterAgent(id)

SpecValidation == InitValidation /\ [][NextValidation]_vars

(***************************************************************************)
(* BaseAgent: one agent, its SQS queue and its message loop.               *)
(***************************************************************************)

MaxTasks == 2       \* receive_messages takes no further non-empty batch once
                    \* tasks_completed + tasks_failed has reached MaxTasks

DISCOVERY_REQUEST == "discovery_request"
DISCOVERY_RESPONSE == "discovery_response"
TASK_REQUEST == "task_request"
TASK_RESPONSE == "task_response"
TASK_UPDATE == "task_update"
HEARTBEAT == "heartbeat"
REGISTRATION == "registration"
DEREGISTRATION == "deregistration"
MessageType ==
    { DISCOVERY_REQUEST, DISCOVERY_RESPONSE, TASK_REQUEST, TASK_RESPONSE, TASK_UPDATE,
      HEARTBEAT, REGISTRATION, DEREGISTRATION }

AgentId == "a1"         \* self.agent_id
Requester == "a2"       \* the sender of the messages the agent receives
AgentCapabilities == <<Capability(TEXT_PROCESSING)>>    \* self.capabilities

NoTask == [task_id |-> None, required_capabilities |-> <<>>, valid |-> FALSE]

\* payload['task']: a dictionary Task(**task_data) accepts
TaskData(task_id, caps) ==
    [task_id |-> task_id, required_capabilities |-> caps, valid |-> TRUE]

\* the body of an SQS message: json says whether json.loads accepts it, the
\* other fields are the keys of the decoded dictionary; task is payload['task']
\* (NoTask: the payload has no task that Task(**task_data) accepts)
Body(message_id, message_type, sender_id, timestamp, task) ==
    [ json |-> TRUE, message_id |-> message_id, message_type |-> message_type,
      sender_id |-> sender_id, timestamp |-> timestamp, correlation_id |-> "c1",
      task |-> task ]

\* a timestamp later than every time of the clock
Future == MaxTime + 2

\* the bodies the queue hands out.  Each is one message of the queue: a body
\* received again is the same message delivered again.
TextRequest == Body("m1", TASK_REQUEST, Requester, 0, TaskData("t1", <<TEXT_PROCESSING>>))
DataRequest ==
    Body("m2", TASK_REQUEST, Requester, 0, TaskData("t2", <<DATA_ANALYSIS, TEXT_PROCESSING>>))
EmptyRequest == Body("m3", TASK_REQUEST, Requester, 0, NoTask)
HeartbeatBody == Body("m4", HEARTBEAT, Requester, 0, NoTask)
DiscoveryBody == Body("m5", DISCOVERY_REQUEST, Requester, 0, NoTask)
ResponseBody == Body("m6", TASK_RESPONSE, Requester, 0, NoTask)
UnknownTypeBody == Body("m7", "bogus", Requester, 0, NoTask)
NoSenderBody == Body("m8", HEARTBEAT, "", 0, NoTask)
FutureBody == Body("m9", HEARTBEAT, Requester, Future, NoTask)
BadJsonBody == [Body("", "", "", 0, NoTask) EXCEPT !.json = FALSE]

Bodies ==
    { TextRequest, DataRequest, EmptyRequest, HeartbeatBody, DiscoveryBody, ResponseBody,
      UnknownTypeBody, NoSenderBody, FutureBody, BadJsonBody }

\* response.get('Messages', []): no message, one message, or a text request
\* together with one other message, in either order
Batches ==
    {<<>>} \cup {<<b>> : b \in Bodies}
           \cup {<<TextRequest, b>> : b \in Bodies \ {TextRequest}}
           \cup {<<b, TextRequest>> : b \in Bodies \ {TextRequest}}

\* validate_message
validate_message(message) ==
    IF message.message_id = "" \/ message.sender_id = "" THEN FALSE
    ELSE IF message.message_type \notin MessageType THEN FALSE
    ELSE IF message.timestamp > now THEN FALSE
    ELSE TRUE

\* Message(**message_data) raises a pydantic ValidationError, which is neither
\* a JSONDecodeError nor a KeyError
MessageRaises(body) == body.message_type \notin MessageType

\* the for loop of receive_messages over the bodies still to read, messages
\* being the list built so far: a body json.loads rejects is skipped by the
\* inner except clause, an exception of Message(**message_data) leaves the
\* loop for the outer except clause, which returns []
RECURSIVE ParseMessages(_, _)
ParseMessages(bodies, messages) ==
    IF bodies = <<>> THEN messages
    ELSE LET body == Head(bodies)
         IN  IF ~body.json THEN ParseMessages(Tail(bodies), messages)
             ELSE IF MessageRaises(body) THEN <<>>
             ELSE IF validate_message(body)
                  THEN ParseMessages(Tail(bodies), Append(messages, body))
             ELSE ParseMessages(Tail(bodies), messages)

\* what sqs.receive_message does: it returns the batch or raises
SqsOutcomes == {"ok", "raise"}

\* receive_messages
receive_messages(batch, sqs) ==
    IF sqs = "ok" THEN ParseMessages(batch, <<>>) ELSE <<>>

\* _register_default_handlers: the message types with a handler
message_handlers == {HEARTBEAT, DISCOVERY_REQUEST, TASK_REQUEST, REGISTRATION, DEREGISTRATION}

\* the message types whose default handler is `pass`
PassHandlers == {DISCOVERY_REQUEST, REGISTRATION, DEREGISTRATION}

\* create_agent_card, built at time created; success_rate in percent
create_agent_card(created) ==
    AgentCard(AgentId,
              Shape("agent", "desc", AgentCapabilities, None,
                    {AgentCapabilities[n].type : n \in DOMAIN AgentCapabilities},
                    IF agent.tasks_completed + agent.tasks_failed > 0
                    THEN (100 * agent.tasks_completed)
                             \div (agent.tasks_completed + agent.tasks_failed)
                    ELSE 100,
                    5),
              created)

\* what a call of the registry does: it succeeds, it returns an error result
\* (a ClientError), or it raises (any other exception)
CallOutcomes == {"ok", "error", "raise"}

\* register(): True when there is a registry and register_agent stored the card
register(outcome) ==
    agent.registry /\ outcome = "ok" /\ validate_agent_card(create_agent_card(now)) = <<>>

\* the table after update_agent_heartbeat(agent_id)
HeartbeatTable(outcome) ==
    IF outcome = "ok" /\ ItemExists(table, AgentId)
    THEN UpdateItem(table, AgentId, ExpressionValues([k \in {"last_seen"} |-> now]))
    ELSE table

\* (mutant) a deregistration that reports success and deletes nothing
DeregisterTableKeeps(outcome) == table

\* the table after deregister_agent(agent_id)
DeregisterTable(outcome) ==
    IF outcome = "ok" THEN DeleteItem(table, AgentId) ELSE table

\* send_message: the queue gets the message when the channel works
Send(channel, message) == IF channel THEN <<message>> ELSE <<>>

\* the task_response _handle_task_request builds for a request
Response(message, status, result, error_message) ==
    [ message_type |-> TASK_RESPONSE, sender_id |-> AgentId,
      recipient_id |-> message.sender_id, correlation_id |-> message.correlation_id,
      task_id |-> message.task.task_id, status |-> status, result |-> result,
      error_message |-> error_message ]

\* can_handle: every required capability is one of the agent's own
CanHandle(task) ==
    \A n \in DOMAIN task.required_capabilities :
        \E c \in DOMAIN AgentCapabilities :
            AgentCapabilities[c].type = task.required_capabilities[n]

\* execute_task's search: the first required capability with a task handler
RECURSIVE AgentFindHandler(_)
AgentFindHandler(caps) ==
    IF caps = <<>> THEN None
    ELSE IF Head(caps) \in agent.task_handlers THEN Head(caps)
    ELSE AgentFindHandler(Tail(caps))

\* the dictionaries execute_task returns
ExecuteResult(success, result, error) ==
    [success |-> success, result |-> result, error |-> error]
NoHandlerError == "No handler found for required capabilities"
NoResult == ExecuteResult(FALSE, None, None)     \* execute_task was not called

\* what ret says of a process_message: the message, whether the handler
\* raised, whether the channel worked, whether a task handler was invoked and
\* what execute_task returned
Processed(message, raised, channel, invoked, result) ==
    [ message |-> message, raised |-> raised, channel |-> channel, invoked |-> invoked,
      result |-> result ]

\* register_task_handler(capability_type, handler)
AgentRegisterTaskHandler(c) ==
    /\ c \notin agent.task_handlers
    /\ agent' = [agent EXCEPT !.task_handlers = @ \cup {c}]
    /\ UNCHANGED <<taskVars, regVars, now, ret, loop, sent, executed>>

\* start() up to the first test of the while loop: register(), whose call of
\* the registry has the given outcome, then is_running = True
Start(outcome) ==
    /\ loop.pc = "init"
    /\ ret' = RegRet("start", AgentId, register(outcome), None)
    /\ agent' = [agent EXCEPT !.is_registered = @ \/ register(outcome),
                              !.is_running = TRUE]
    /\ table' = IF register(outcome)
                THEN PutItem(table, RegisteredItem(create_agent_card(now)))
                ELSE table
    /\ loop' = [loop EXCEPT !.pc = "loop"]
    /\ UNCHANGED <<taskVars, replaced, cleanup, now, sent, executed>>

\* `while self.is_running:` holds and receive_messages() returns: sqs hands
\* out the batch or raises
ReceiveMessages(batch, sqs) ==
    /\ loop.pc = "loop"
    /\ agent.is_running
    /\ batch # <<>> => agent.tasks_completed + agent.tasks_failed < MaxTasks
    /\ ret' = RegRet("receive_messages", AgentId, TRUE,
                     [batch |-> batch, sqs |-> sqs, messages |-> receive_messages(batch, sqs)])
    /\ loop' = [pc |-> "process", messages |-> receive_messages(batch, sqs), next |-> 1]
    /\ UNCHANGED <<taskVars, regVars, now, agent, sent, executed>>

\* `while self.is_running:` fails: start() returns
LoopExit ==
    /\ loop.pc = "loop"
    /\ ~agent.is_running
    /\ loop' = [loop EXCEPT !.pc = "done"]
    /\ UNCHANGED <<taskVars, regVars, now, ret, agent, sent, executed>>

\* the for loop of start() is at a message
AtMessage == loop.pc = "process" /\ loop.next <= Len(loop.messages)

\* (mutant) a for loop that takes the messages from the end of the list
CurrentFromEnd == loop.messages[Len(loop.messages) + 1 - loop.next]

\* the message the for loop is at
Current == loop.messages[loop.next]

\* (mutant) a process_message that reports a missing handler as success
NoHandlerResultTrue == TRUE

\* process_message, no handler for the message type: return False
NoHandlerResult == FALSE

\* process_message, the handler raised: return False
RaisedResult == FALSE

\* process_message returns ok and the for loop moves on
ProcessReturns(ok, val) ==
    /\ ret' = RegRet("process_message", AgentId, ok, val)
    /\ loop' = [loop EXCEPT !.pc = "process", !.next = @ + 1]

\* process_message of a message whose type has no handler
ProcessNoHandler ==
    /\ AtMessage
    /\ Current.message_type \notin message_handlers
    /\ ProcessReturns(NoHandlerResult, Processed(Current, FALSE, TRUE, FALSE, NoResult))
    /\ sent' = <<>>
    /\ UNCHANGED <<taskVars, regVars, now, agent, executed>>

\* process_message of a message whose handler does nothing
HandlePass ==
    /\ AtMessage
    /\ Current.message_type \in message_handlers \cap PassHandlers
    /\ ProcessReturns(TRUE, Processed(Current, FALSE, TRUE, FALSE, NoResult))
    /\ sent' = <<>>
    /\ UNCHANGED <<taskVars, regVars, now, agent, executed>>

\* process_message of a heartbeat: _handle_heartbeat calls
\* update_agent_heartbeat when the agent is registered
HandleHeartbeat(outcome) ==
    /\ AtMessage
    /\ Current.message_type = HEARTBEAT
    /\ HEARTBEAT \in message_handlers
    /\ ~agent.is_registered => outcome = "ok"
    /\ IF agent.is_registered /\ outcome = "raise"
       THEN /\ ProcessReturns(RaisedResult, Processed(Current, TRUE, TRUE, FALSE, NoResult))
            /\ UNCHANGED table
       ELSE /\ ProcessReturns(TRUE, Processed(Current, FALSE, TRUE, FALSE, NoResult))
            /\ table' = IF agent.is_registered THEN HeartbeatTable(outcome) ELSE table
    /\ sent' = <<>>
    /\ UNCHANGED <<taskVars, replaced, cleanup, now, agent, executed>>

\* process_message of a task request, up to the call of the task handler or,
\* when none is called, to the end
HandleTaskRequest(channel) ==
    /\ AtMessage
    /\ Current.message_type = TASK_REQUEST
    /\ TASK_REQUEST \in message_handlers
    /\ LET task == Current.task
           handler == AgentFindHandler(task.required_capabilities)
       IN  IF ~task.valid
           THEN \* Task(**task_data) raises
                /\ channel
                /\ ProcessReturns(RaisedResult,
                                  Processed(Current, TRUE, channel, FALSE, NoResult))
                /\ sent' = <<>>
                /\ UNCHANGED <<agent, executed>>
           ELSE IF ~CanHandle(task)
           THEN /\ ProcessReturns(TRUE, Processed(Current, FALSE, channel, FALSE, NoResult))
                /\ sent' = Send(channel,
                                Response(Current, "rejected", None,
                                         "Agent does not have required capabilities"))
                /\ UNCHANGED <<agent, executed>>
           ELSE IF handler = None
           THEN \* execute_task returns the failure before it touches a counter
                /\ ProcessReturns(TRUE,
                                  Processed(Current, FALSE, channel, FALSE,
                                            ExecuteResult(FALSE, None, NoHandlerError)))
                /\ sent' = Send(channel, Response(Current, "failed", None, NoHandlerError))
                /\ UNCHANGED <<agent, executed>>
           ELSE \* await handler(task.parameters)
                /\ channel
                /\ loop' = [loop EXCEPT !.pc = "handler"]
                /\ executed' = [executed EXCEPT ![task.task_id] = @ + 1]
                /\ UNCHANGED <<agent, ret, sent>>
    /\ UNCHANGED <<taskVars, regVars, now>>

\* (mutant) a return that counts the task as completed and as failed
CompletedAgentBoth(a) ==
    [a EXCEPT !.tasks_completed = @ + 1, !.tasks_failed = @ + 1]

\* execute_task after the handler returned: tasks_completed += 1
CompletedAgent(a) == [a EXCEPT !.tasks_completed = @ + 1]

\* execute_task's except clause: tasks_failed += 1
FailedAgent(a) == [a EXCEPT !.tasks_failed = @ + 1]

\* the task handler returned r: execute_task returns the success result and
\* _handle_task_request sends the response
HandlerReturn(r, channel) ==
    /\ loop.pc = "handler"
    /\ ProcessReturns(TRUE, Processed(Current, FALSE, channel, TRUE,
                                      ExecuteResult(TRUE, r, None)))
    /\ agent' = CompletedAgent(agent)
    /\ sent' = Send(channel, Response(Current, "completed", r, None))
    /\ UNCHANGED <<taskVars, regVars, now, executed>>

\* the task handler raised an exception whose message is e
HandlerRaise(e, channel) ==
    /\ loop.pc = "handler"
    /\ ProcessReturns(TRUE, Processed(Current, FALSE, channel, TRUE,
                                      ExecuteResult(FALSE, None, e)))
    /\ agent' = FailedAgent(agent)
    /\ sent' = Send(channel, Response(Current, "failed", None, e))
    /\ UNCHANGED <<taskVars, regVars, now, executed>>

\* (mutant) an exception of the loop body that leaves the while loop
LoopExceptEscapes == "done"

\* the except clause of the while loop: log, asyncio.sleep(5), next iteration
LoopExcept == "sleep"

\* after the for loop: the periodic heartbeat, then asyncio.sleep(1); when
\* the heartbeat raises, the except clause of the loop and asyncio.sleep(5)
LoopHeartbeat(outcome) ==
    /\ loop.pc = "process"
    /\ loop.next > Len(loop.messages)
    /\ ~agent.is_registered => outcome = "ok"
    /\ ret' = RegRet("heartbeat", AgentId, ~(agent.is_registered /\ outcome = "raise"),
                     IF agent.is_registered /\ outcome = "raise" THEN 5 ELSE 1)
    /\ table' = IF agent.is_registered THEN HeartbeatTable(outcome) ELSE table
    /\ loop' = [pc |-> IF agent.is_registered /\ outcome = "raise"
                       THEN LoopExcept ELSE "sleep",
                messages |-> <<>>, next |-> 1]
    /\ sent' = <<>>
    /\ UNCHANGED <<taskVars, replaced, cleanup, now, agent, executed>>

\* asyncio.sleep returns: back to the test of the while loop
Wake ==
    /\ loop.pc = "sleep"
    /\ loop' = [loop EXCEPT !.pc = "loop"]
    /\ UNCHANGED <<taskVars, regVars, now, ret, agent, sent, executed>>

\* deregister(): True when there is nothing to deregister or deregister_agent
\* succeeded
deregister(outcome) == ~agent.registry \/ ~agent.is_registered \/ outcome = "ok"

\* stop(), called on the running agent while start() is suspended or between
\* its steps: is_running = False, then deregister(); ret says whether
\* deregister_agent was called and deleted the record
Stop(outcome) ==
    /\ agent.is_running
    /\ ~agent.is_registered => outcome = "ok"
    /\ ret' = RegRet("stop", AgentId, deregister(outcome),
                     [deregistered |-> agent.is_registered /\ outcome = "ok"])
    /\ agent' = [agent EXCEPT !.is_running = FALSE,
                              !.is_registered = @ /\ outcome # "ok"]
    /\ table' = IF agent.is_registered THEN DeregisterTable(outcome) ELSE table
    /\ UNCHANGED <<taskVars, replaced, cleanup, now, loop, sent, executed>>

\* the steps of the coroutine of start() other than the task handler's own
LoopStep ==
    \/ \E batch \in Batches, sqs \in SqsOutcomes : ReceiveMessages(batch, sqs)
    \/ LoopExit
    \/ ProcessNoHandler
    \/ HandlePass
    \/ \E outcome \in CallOutcomes : HandleHeartbeat(outcome)
    \/ \E channel \in BOOLEAN : HandleTaskRequest(channel)
    \/ \E outcome \in CallOutcomes : LoopHeartbeat(outcome)
    \/ Wake

\* the task handler finishes
HandlerStep ==
    \/ \E r \in Results, channel \in BOOLEAN : HandlerReturn(r, channel)
    \/ \E e \in ErrorMsgs, channel \in BOOLEAN : HandlerRaise(e, channel)

InitAgent == InitTask

NextAgent ==
    \/ Tick
    \/ \E c \in HandlerTypes : AgentRegisterTaskHandler(c)
    \/ \E outcome \in CallOutcomes : Start(outcome)
    \/ \E batch \in Batches, sqs \in SqsOutcomes : ReceiveMessages(batch, sqs)
    \/ LoopExit
    \/ ProcessNoHandler
    \/ HandlePass
    \/ \E outcome \in CallOutcomes : HandleHeartbeat(outcome)
    \/ \E channel \in BOOLEAN : HandleTaskRequest(channel)
    \/ \E r \in Results, channel \in BOOLEAN : HandlerReturn(r, channel)
    \/ \E e \in ErrorMsgs, channel \in BOOLEAN : HandlerRaise(e, channel)
    \/ \E outcome \in CallOutcomes : LoopHeartbeat(outcome)
    \/ Wake
    \/ \E outcome \in CallOutcomes : Stop(outcome)

SpecAgent == InitAgent /\ [][NextAgent]_vars

\* asyncio runs the coroutine of start() on whenever it can go on; nothing
\* makes a task handler finish
SpecAgentFair == SpecAgent /\ WF_vars(LoopStep)

\* the running agent, while another caller of the registry (an operator, or
\* cleanup_inactive_agents) may delete the agent's record; the loop and the
\* task handler both keep taking their steps
NextAgentRemoved == NextAgent \/ DeregisterAgent(AgentId)

SpecAgentRemoved ==
    InitAgent /\ [][NextAgentRemoved]_vars /\ WF_vars(LoopStep) /\ WF_vars(HandlerStep)

(***************************************************************************)
(* BaseAgent: register() and deregister() called on their own, with or     *)
(* without a registry, while other callers use the registry                *)
(* (SpecRegistration).                                                      *)
(***************************************************************************)

\* (mutant) a register() that sets the flag whatever the registry answered
AfterRegisterAlways(is_registered, success) == TRUE

\* is_registered after register(): set when register_agent succeeded
AfterRegister(is_registered, success) == is_registered \/ success

\* is_registered after deregister(): cleared when deregister_agent succeeded
AfterDeregister(is_registered, success) == is_registered /\ ~success

\* await agent.register(); ret says what it returned and whether it called
\* the registry
Register(outcome) ==
    /\ ret' = RegRet("register", AgentId, register(outcome), [called |-> agent.registry])
    /\ agent' = [agent EXCEPT !.is_registered = AfterRegister(@, register(outcome))]
    /\ table' = IF register(outcome)
                THEN PutItem(table, RegisteredItem(create_agent_card(now)))
                ELSE table
    /\ UNCHANGED <<taskVars, replaced, cleanup, now, loop, sent, executed>>

\* await agent.deregister(); the registry is called only by an agent that has
\* one and is registered
Deregister(outcome) ==
    LET called == agent.registry /\ agent.is_registered
    IN  /\ ret' = RegRet("deregister", AgentId, deregister(outcome), [called |-> called])
        /\ agent' = [agent EXCEPT
                        !.is_registered = AfterDeregister(@, called /\ outcome = "ok")]
        /\ table' = IF called THEN DeregisterTable(outcome) ELSE table
        /\ UNCHANGED <<taskVars, replaced, cleanup, now, loop, sent, executed>>

\* the agent is constructed with or without a registry_table
InitRegistration ==
    /\ tasks = EmptyMap
    /\ execution_history = EmptyMap
    /\ task_handlers = {}
    /\ tm_exec = EmptyMap
    /\ table = {}
    /\ replaced = {}
    /\ cleanup = NoCleanup
    /\ now = 0
    /\ ret = Ret("init", None, None, TRUE, None)
    /\ agent \in {[NewAgent EXCEPT !.registry = r] : r \in BOOLEAN}
    /\ loop = NotStarted
    /\ sent = <<>>
    /\ executed = [t \in RequestTaskIds |-> 0]

NextRegistration ==
    \/ Tick
    \/ \E outcome \in CallOutcomes : Register(outcome)
    \/ \E outcome \in CallOutcomes : Deregister(outcome)
    \/ \E shape \in LifeShapes, created \in LifeCardTimes :
          RegisterAgent(AgentId, shape, created)
    \/ \E updates \in LifeUpdateDicts : UpdateAgent(AgentId, updates)
    \/ UpdateAgentHeartbeat(AgentId)
    \/ DeregisterAgent(AgentId)

SpecRegistration == InitRegistration /\ [][NextRegistration]_vars

(***************************************************************************)
(* TaskScheduler: get_optimal_agent_for_task and prioritize_tasks, on       *)
(* agents written by the caller and on the records of the registry          *)
(* (SpecScheduler).                                                         *)
(***************************************************************************)

MaxCandidates == 3      \* the longest list of available agents
MaxQueue == 2           \* the longest list of tasks to prioritize

\* a Python str as an element of a list that may also hold dictionaries
Str(s) == [value |-> s]

\* dict.get(key, default)
Get(dict, key, default) == IF key \in DOMAIN dict THEN dict[key] ELSE default

\* an agent dictionary as get_optimal_agent_for_task reads it: capabilities is
\* a list of capability values, current_load and success_rate are in percent
Candidate(agent_id, capabilities, current_load, success_rate) ==
    [ agent_id |-> agent_id,
      capabilities |-> [n \in DOMAIN capabilities |-> Str(capabilities[n])],
      current_load |-> current_load, success_rate |-> success_rate ]

\* the agents the scheduler is called with: scores 0.72 (twice), 0.475, 1.0
\* for an agent that lacks data_analysis, and an agent that states neither
\* its load nor its success rate
Candidates ==
    { Candidate("a1", <<TEXT_PROCESSING, DATA_ANALYSIS>>, 20, 90),
      Candidate("a2", <<DATA_ANALYSIS, TEXT_PROCESSING>>, 50, 95),
      Candidate("a3", <<TEXT_PROCESSING>>, 0, 100),
      Candidate("a4", <<TEXT_PROCESSING, DATA_ANALYSIS>>, 20, 90),
      [agent_id |-> "a5", capabilities |-> <<Str(DATA_ANALYSIS), Str(TEXT_PROCESSING)>>] }

\* the lists of at most max different elements of a set
ListsOf(set, max) ==
    UNION { { list \in [1..n -> set] : \A i, j \in 1..n : list[i] = list[j] => i = j } :
            n \in 0..max }

\* the required capabilities of the tasks the scheduler is called with
RequiredLists == {<<TEXT_PROCESSING>>, <<DATA_ANALYSIS, TEXT_PROCESSING>>}

\* (mutant) a test that is content with one of the required capabilities
HasSomeCapability(required_capabilities, agent_dict) ==
    \E n \in DOMAIN required_capabilities :
        Str(required_capabilities[n]) \in Range(Get(agent_dict, "capabilities", <<>>))

\* has_all_capabilities: `cap.value in agent_capabilities` for every required
\* capability
HasAllCapabilities(required_capabilities, agent_dict) ==
    \A n \in DOMAIN required_capabilities :
        Str(required_capabilities[n]) \in Range(Get(agent_dict, "capabilities", <<>>))

\* load_score * success_rate, times 100 * 100
AgentScore(agent_dict) ==
    (100 - Get(agent_dict, "current_load", 0)) * Get(agent_dict, "success_rate", 50)

\* the for loop that builds suitable_agents
RECURSIVE SuitableAgents(_, _)
SuitableAgents(required_capabilities, available_agents) ==
    IF available_agents = <<>> THEN <<>>
    ELSE LET agent_dict == Head(available_agents)
         IN  (IF HasAllCapabilities(required_capabilities, agent_dict)
              THEN <<[agent_id |-> agent_dict.agent_id, score |-> AgentScore(agent_dict)]>>
              ELSE <<>>)
                 \o SuitableAgents(required_capabilities, Tail(available_agents))

\* max(suitable_agents, key = score): the first of the elements with the
\* highest score
FirstMax(suitable_agents) ==
    LET n == CHOOSE i \in DOMAIN suitable_agents :
                 /\ \A j \in DOMAIN suitable_agents :
                       suitable_agents[j].score <= suitable_agents[i].score
                 /\ \A j \in 1..(i - 1) : suitable_agents[j].score < suitable_agents[i].score
    IN  suitable_agents[n]

\* get_optimal_agent_for_task
get_optimal_agent_for_task(required_capabilities, available_agents) ==
    LET suitable_agents == SuitableAgents(required_capabilities, available_agents)
    IN  IF suitable_agents = <<>> THEN None ELSE FirstMax(suitable_agents).agent_id

\* what ret says of a call of get_optimal_agent_for_task
Selected(required_capabilities, available_agents) ==
    [ required_capabilities |-> required_capabilities,
      available_agents |-> available_agents,
      agent_id |-> get_optimal_agent_for_task(required_capabilities, available_agents) ]

\* get_optimal_agent_for_task(task, available_agents) on agents of the caller
GetOptimalAgent(required_capabilities, available_agents) ==
    /\ ret' = Ret("get_optimal_agent_for_task", None, None, TRUE,
                  Selected(required_capabilities, available_agents))
    /\ UNCHANGED <<taskVars, regVars, now, agentVars>>

\* get_optimal_agent_for_task(task, list_all_agents()['agents']): the
\* available agents are the items of the table, in the order of the scan.  (An
\* item of the model has no success_rate: the score of an item is never
\* computed, its capabilities being dictionaries.)
GetOptimalRegistered(required_capabilities, order) ==
    /\ ret' = Ret("get_optimal_registered", None, None, TRUE,
                  Selected(required_capabilities, ScanOrder(table, order)))
    /\ UNCHANGED <<taskVars, regVars, now, agentVars>>

\* ten hours, in seconds: the age that weighs as much as one priority level
TenHours == 36000

\* the times, in seconds, at which the scheduler's clock is read, and the tasks
\* prioritize_tasks is called with: created just now, ten hours and fifteen
\* hours ago; deadline is the set of the deadlines of the task, empty for None
SchedTimes == {54000, 54001}

QueuedTask(task_id, priority, deadline, created_at) ==
    [task_id |-> task_id, priority |-> priority, deadline |-> deadline,
     created_at |-> created_at]

QueuedTasks ==
    { QueuedTask("p1", "normal", {}, 54000), QueuedTask("p2", "normal", {}, 54000),
      QueuedTask("p3", "high", {}, 54000), QueuedTask("p4", "normal", {}, 18000),
      QueuedTask("p5", "normal", {}, 0), QueuedTask("p6", "low", {53000}, 54000) }

\* TaskScheduler.__init__
priority_weights == [p \in {"low", "normal", "high", "urgent"} |->
                        CASE p = "low" -> 1 [] p = "normal" -> 2 [] p = "high" -> 3
                          [] p = "urgent" -> 4]

\* task_score, times 36000: the weight, 10 for a deadline that has passed, 0.1
\* for every hour of age.  The clock is read twice, for the deadline and for
\* the age.
task_score(task, deadline_read, age_read) ==
    TenHours * priority_weights[task.priority]
        + (IF \E deadline \in task.deadline : deadline < deadline_read
           THEN 10 * TenHours ELSE 0)
        + (age_read - task.created_at)

\* the values datetime.utcnow() returns in 2 * n successive calls
ClockReads(n) ==
    { reads \in [1..(2 * n) -> SchedTimes] :
        \A i, j \in 1..(2 * n) : i < j => reads[i] <= reads[j] }

\* sorted(tasks, key = task_score, reverse = True): the key of every task is
\* computed once, in the order of the list; the sort is stable, so that of two
\* tasks with the same key the one earlier in the list stays first
RECURSIVE SortedByKey(_, _, _)
SortedByKey(queue, key, n) ==
    IF n = 0 THEN <<>>
    ELSE LET sorted == SortedByKey(queue, key, n - 1)
         IN  SelectSeq(sorted, LAMBDA m : key[m] >= key[n])
                 \o <<n>> \o SelectSeq(sorted, LAMBDA m : key[m] < key[n])

\* prioritize_tasks(tasks) when the clock returns reads, queue being the tasks
prioritize_tasks(queue, reads) ==
    LET key == [n \in DOMAIN queue |-> task_score(queue[n], reads[2 * n - 1], reads[2 * n])]
        sorted == SortedByKey(queue, key, Len(queue))
    IN  [n \in DOMAIN sorted |-> queue[sorted[n]]]

PrioritizeTasks(queue, reads) ==
    /\ ret' = Ret("prioritize_tasks", None, None, TRUE,
                  [tasks |-> queue, reads |-> reads, result |-> prioritize_tasks(queue, reads)])
    /\ UNCHANGED <<taskVars, regVars, now, agentVars>>

InitScheduler == InitTask

NextScheduler ==
    \/ \E required \in RequiredLists, agents \in ListsOf(Candidates, MaxCandidates) :
          GetOptimalAgent(required, agents)
    \/ \E queue \in ListsOf(QueuedTasks, MaxQueue) :
          \E reads \in ClockReads(Len(queue)) : PrioritizeTasks(queue, reads)

SpecScheduler == InitScheduler /\ [][NextScheduler]_vars

\* the scheduler on the records of the registry
NextSchedulerRegistry ==
    \/ Tick
    \/ \E id \in AgentIds, shape \in CardShapes, created \in CardTimes :
          RegisterAgent(id, shape, created)
    \/ \E id \in AgentIds : UpdateAgentHeartbeat(id)
    \/ \E id \in AgentIds : DeregisterAgent(id)
    \/ \E required \in RequiredLists, order \in ScanOrders :
          GetOptimalRegistered(required, order)

SpecSchedulerRegistry == InitScheduler /\ [][NextSchedulerRegistry]_vars

(***************************************************************************)
(* The users of the capability-extraction oracle (Bedrock):                 *)
(* DiscoveryService.ai_discovery and get_recommendations, and               *)
(* BedrockEnhancedAgent.process_task_with_ai (SpecOracle).  The discovery   *)
(* service has a registry.                                                  *)
(***************************************************************************)

\* what a call of the oracle does: it answers or it raises
OracleOutcomes == {"ok", "raise"}

\* the capabilities a caller supplies and the oracle extracts: lists of
\* strings, as they come out of the JSON of the request and of the answer
CallerCapabilities == {<<>>, <<TEXT_PROCESSING>>}

\* the max_agents values of the callers
MaxAgentsValues == {0, 1}

\* the result dictionary of the discovery service; raised says that an
\* exception left the method instead
OracleResult(success, status_code, selection_method, agents) ==
    [ raised |-> FALSE, success |-> success, status_code |-> status_code,
      selection_method |-> selection_method, agents |-> agents ]
OracleFailure(status_code) == OracleResult(FALSE, status_code, None, <<>>)
OracleRaised == [OracleFailure(0) EXCEPT !.raised = TRUE]

\* registry.discover_agents(required_capabilities, location = None) as the
\* discovery service calls it, with capabilities that are strings: building
\* the filter reads cap_type.value, which a str has not, and the
\* AttributeError is not a ClientError; without capabilities the scan returns
\* the active agents, most recently seen first
ServiceDiscover(required_capabilities, order) ==
    IF required_capabilities # {}
    THEN [raised |-> TRUE, agents |-> <<>>]
    ELSE [ raised |-> FALSE,
           agents |-> IdsOf(SortByLastSeen(
                          ScanItems(DiscoveryQuery({}, {}, None, {}, 10, TRUE),
                                    ScanEvaluated(table, order, 10)))) ]

\* the first max_agents elements: available_agents[:max_agents]
FirstAgents(available_agents, max_agents) ==
    SubSeq(available_agents, 1,
           IF Len(available_agents) < max_agents THEN Len(available_agents) ELSE max_agents)

\* ai_discovery; call says how the service was constructed (bedrock_enabled),
\* the arguments, what the oracle does for the analysis and for the selection,
\* and the capabilities the analysis extracts
ai_discovery(call, order) ==
    IF ~call.bedrock_enabled THEN OracleFailure(503)
    ELSE IF ~call.described THEN OracleFailure(400)
    ELSE IF call.max_agents < 1 THEN OracleFailure(400)
    ELSE IF call.analysis = "raise"
    THEN LET all_agents_result == ServiceDiscover(Range(call.required_capabilities), order)
         IN  IF all_agents_result.raised THEN OracleRaised
             ELSE OracleResult(TRUE, 200, "fallback_traditional",
                               FirstAgents(all_agents_result.agents, call.max_agents))
    ELSE LET all_agents_result ==
                 ServiceDiscover(Range(call.extracted) \cup Range(call.required_capabilities),
                                 order)
             available_agents == all_agents_result.agents
         IN  IF all_agents_result.raised THEN OracleRaised
             ELSE IF available_agents = <<>>
                  THEN OracleResult(TRUE, 200, "ai_powered", <<>>)
             ELSE IF call.selection = "ok"
                  THEN OracleResult(TRUE, 200, "ai_powered",
                                    FirstAgents(available_agents, call.max_agents))
             ELSE OracleResult(TRUE, 200, "fallback_simple",
                               FirstAgents(available_agents, call.max_agents))

\* get_recommendations: after the analysis it calls registry.discover_agents()
\* without the required argument; the TypeError, like an exception of the
\* oracle, ends in the `except Exception` of the method
get_recommendations(call) ==
    IF ~call.bedrock_enabled THEN OracleFailure(503)
    ELSE IF ~call.described THEN OracleFailure(400)
    ELSE OracleFailure(500)

\* the calls of the discovery service
ServiceCalls ==
    [ bedrock_enabled : BOOLEAN, described : BOOLEAN, max_agents : MaxAgentsValues,
      required_capabilities : CallerCapabilities, analysis : OracleOutcomes,
      extracted : CallerCapabilities, selection : OracleOutcomes ]

AiDiscovery(call, order) ==
    /\ ret' = Ret("ai_discovery", None, None, TRUE,
                  [call |-> call, result |-> ai_discovery(call, order)])
    /\ UNCHANGED <<taskVars, regVars, now, agentVars>>

GetRecommendations(call) ==
    /\ ret' = Ret("get_recommendations", None, None, TRUE,
                  [call |-> call, result |-> get_recommendations(call)])
    /\ UNCHANGED <<taskVars, regVars, now, agentVars>>

\* the result dictionary of the agent; executed says whether a task handler
\* was invoked
AgentResult(success, invoked, error) ==
    [success |-> success, executed |-> invoked, error |-> error]

\* execute_task_fallback: Task(...) is built without title and created_by and
\* with the priority "medium", which is no TaskPriority; the ValidationError
\* is caught and execute_task is not reached
execute_task_fallback == AgentResult(FALSE, FALSE, "Fallback execution failed")

\* the handler outcomes of a task executed with AI guidance
HandlerOutcomes == {"return", "raise"}

\* execute_task_with_parameters: the first extracted capability with a handler
\* is executed; the counters say how it ended
process_task_with_ai(call) ==
    IF ~call.bedrock_enabled \/ call.analysis = "raise" THEN execute_task_fallback
    ELSE IF \E n \in DOMAIN call.extracted :
                \A c \in DOMAIN AgentCapabilities :
                    AgentCapabilities[c].type # call.extracted[n]
    THEN AgentResult(FALSE, FALSE, "Agent cannot handle this task")
    ELSE IF AgentFindHandler(call.extracted) = None
    THEN AgentResult(FALSE, FALSE, NoHandlerError)
    ELSE IF call.handler = "return" THEN AgentResult(TRUE, TRUE, None)
    ELSE AgentResult(FALSE, TRUE, "e1")

\* the capabilities the oracle extracts from the description of an agent's task
ExtractedLists == {<<>>, <<TEXT_PROCESSING>>, <<DATA_ANALYSIS, TEXT_PROCESSING>>}

\* the calls of process_task_with_ai
AgentCalls ==
    [ bedrock_enabled : BOOLEAN, analysis : OracleOutcomes, extracted : ExtractedLists,
      handler : HandlerOutcomes ]

ProcessTaskWithAi(call) ==
    LET result == process_task_with_ai(call) IN
    /\ agent.tasks_completed + agent.tasks_failed < MaxTasks
    /\ ret' = Ret("process_task_with_ai", None, AgentId, TRUE,
                  [call |-> call, result |-> result])
    /\ agent' = [agent EXCEPT
                   !.tasks_completed = IF result.executed /\ result.success THEN @ + 1 ELSE @,
                   !.tasks_failed = IF result.executed /\ ~result.success THEN @ + 1 ELSE @]
    /\ UNCHANGED <<taskVars, regVars, now, loop, sent, executed>>

InitOracle == InitTask

NextOracle ==
    \/ \E id \in AgentIds, shape \in LifeShapes, created \in CardTimes :
          RegisterAgent(id, shape, created)
    \/ \E c \in HandlerTypes : AgentRegisterTaskHandler(c)
    \/ \E call \in ServiceCalls, order \in ScanOrders : AiDiscovery(call, order)
    \/ \E call \in ServiceCalls : GetRecommendations(call)
    \/ \E call \in AgentCalls : ProcessTaskWithAi(call)

SpecOracle == InitOracle /\ [][NextOracle]_vars


(***************************************************************************)
(* Claims about the TaskManager (checked under SpecTask).                  *)
(***************************************************************************)

\* the edges of the task state graph
Edges ==
    { <<PENDING, IN_PROGRESS>>, <<PENDING, CANCELLED>>, <<IN_PROGRESS, COMPLETED>>,
      <<IN_PROGRESS, FAILED>>, <<IN_PROGRESS, CANCELLED>> }

\* the step replaces the stored task by a fresh one (create_task)
Recreated(t) == \E caps \in CapLists : CreateTask(t, caps)

\* C1: every status change of a stored task, made through any entry point
\* (generic update, assign, complete, fail, cancel, execute), follows an edge of
\* the state graph; in particular a terminal status never changes again.
C1_FollowsStateGraph ==
    [][ \A t \in DOMAIN tasks :
          (t \in DOMAIN tasks' /\ ~Recreated(t) /\ tasks'[t].status # tasks[t].status)
              => <<tasks[t].status, tasks'[t].status>> \in Edges ]_vars

\* C2: complete and fail called by an agent other than the assignee of an
\* in_progress task fail and leave the task and its history unchanged.
C2_WrongAgentRejected ==
    [][ \A t \in DOMAIN tasks, a \in AgentIds :
          ( /\ tasks[t].status = IN_PROGRESS
            /\ tasks[t].assigned_to \in AgentIds \ {a}
            /\ \/ \E r \in Results : CompleteTask(t, r, a)
               \/ \E e \in ErrorMsgs : FailTask(t, e, a) )
              => /\ ret'.ok = FALSE
                 /\ tasks'[t] = tasks[t]
                 /\ execution_history'[t] = execution_history[t] ]_vars

\* C3: complete and fail called on a task that is not in_progress (such as a
\* pending, never assigned one) fail and leave the task unchanged.
C3_NotInProgressRejected ==
    [][ \A t \in DOMAIN tasks, a \in AgentIds :
          ( /\ tasks[t].status # IN_PROGRESS
            /\ \/ \E r \in Results : CompleteTask(t, r, a)
               \/ \E e \in ErrorMsgs : FailTask(t, e, a) )
              => /\ ret'.ok = FALSE
                 /\ tasks'[t] = tasks[t]
                 /\ execution_history'[t] = execution_history[t] ]_vars

\* C4: for every task that is not cancelled, assigned_to is set if and only if
\* the status is in_progress, completed or failed.
C4_AssignedIffStarted ==
    \A t \in DOMAIN tasks :
        tasks[t].status # CANCELLED =>
            (tasks[t].assigned_to # None
                <=> tasks[t].status \in {IN_PROGRESS, COMPLETED, FAILED})

\* C5: when a task was cancelled while its handler was running inside
\* execute_task, the outcome that execute_task records afterwards is rejected:
\* the task stays cancelled with its result and error_message as they were.
C5_CancelledStaysCancelled ==
    [][ \A a \in DOMAIN tm_exec :
          ( /\ tm_exec[a].task_id \in DOMAIN tasks
            /\ tasks[tm_exec[a].task_id].status = CANCELLED
            /\ \/ \E r \in Results : ExecuteReturn(a, r)
               \/ \E e \in ErrorMsgs : ExecuteRaise(a, e) )
              => /\ tasks'[tm_exec[a].task_id].status = CANCELLED
                 /\ tasks'[tm_exec[a].task_id].result = tasks[tm_exec[a].task_id].result
                 /\ tasks'[tm_exec[a].task_id].error_message
                        = tasks[tm_exec[a].task_id].error_message ]_vars

\* C6: assign succeeds only on a pending task, which it makes in_progress with
\* assigned_to the given agent; on any other task it fails and leaves
\* assigned_to unchanged.
C6_AssignOnlyPending ==
    [][ \A t \in DOMAIN tasks, a \in AgentIds :
          AssignTask(t, a) =>
              IF tasks[t].status = PENDING
              THEN /\ ret'.ok
                   /\ tasks'[t].status = IN_PROGRESS
                   /\ tasks'[t].assigned_to = a
              ELSE /\ ret'.ok = FALSE
                   /\ tasks'[t].status = tasks[t].status
                   /\ tasks'[t].assigned_to = tasks[t].assigned_to ]_vars

Actors == AgentIds \cup {"system"}

\* what a call that asks to move task t to status s on behalf of u does: when
\* the task exists it succeeds, appends (s, u) and stamps updated_at; when it
\* does not, it fails and creates nothing
Logged(t, s, u) ==
    IF t \in DOMAIN tasks
    THEN /\ execution_history'[t]
              = Append(execution_history[t], [status |-> s, updated_by |-> u])
         /\ tasks'[t].status = s
         /\ tasks'[t].updated_at = now
    ELSE /\ t \notin DOMAIN tasks'
         /\ t \notin DOMAIN execution_history'

\* the calls whose return value says whether the transition succeeded
C7_Direct(t) ==
    /\ \A s \in TaskStatus, kw \in KwargsSet :
          UpdateTaskStatus(t, s, kw) =>
              /\ Logged(t, s, IF kw.updated_by = Absent THEN "system" ELSE kw.updated_by)
              /\ ret'.ok = (t \in DOMAIN tasks)
    /\ \A a \in AgentIds :
          AssignTask(t, a) =>
              Logged(t, IN_PROGRESS, "system") /\ ret'.ok = (t \in DOMAIN tasks)
    /\ \A a \in AgentIds, r \in Results :
          CompleteTask(t, r, a) =>
              Logged(t, COMPLETED, a) /\ ret'.ok = (t \in DOMAIN tasks)
    /\ \A a \in AgentIds, e \in ErrorMsgs :
          FailTask(t, e, a) =>
              Logged(t, FAILED, a) /\ ret'.ok = (t \in DOMAIN tasks)
    /\ CancelTask(t) =>
          Logged(t, CANCELLED, "system") /\ ret'.ok = (t \in DOMAIN tasks)

\* the transition execute_task makes when the handler is back
C7_Execute(t) ==
    \A a \in DOMAIN tm_exec :
        tm_exec[a].task_id = t =>
            /\ \A r \in Results : ExecuteReturn(a, r) => Logged(t, COMPLETED, a)
            /\ \A e \in ErrorMsgs : ExecuteRaise(a, e) => Logged(t, FAILED, a)

\* the step is one of the calls above
TransitionCall(t) ==
    \/ \E s \in TaskStatus, kw \in KwargsSet : UpdateTaskStatus(t, s, kw)
    \/ \E a \in AgentIds : AssignTask(t, a)
    \/ \E a \in AgentIds, r \in Results : CompleteTask(t, r, a)
    \/ \E a \in AgentIds, e \in ErrorMsgs : FailTask(t, e, a)
    \/ CancelTask(t)
    \/ \E a \in DOMAIN tm_exec :
          /\ tm_exec[a].task_id = t
          /\ \/ \E r \in Results : ExecuteReturn(a, r)
             \/ \E e \in ErrorMsgs : ExecuteRaise(a, e)

\* a step that changes the history or the status of a stored task is one of the
\* calls above, or create_task, which starts an empty history
C7_NothingElse(t) ==
    /\ (/\ t \in DOMAIN tasks
        /\ t \in DOMAIN tasks'
        /\ \/ execution_history'[t] # execution_history[t]
           \/ tasks'[t].status # tasks[t].status)
          => (TransitionCall(t) \/ Recreated(t))
    /\ Recreated(t) => execution_history'[t] = <<>> /\ tasks'[t].status = PENDING

C7_Step(t) == C7_Direct(t) /\ C7_Execute(t) /\ C7_NothingElse(t)

\* the last entry of a history is the status the task has
C7_LastEntry ==
    \A t \in DOMAIN tasks :
        /\ t \in DOMAIN execution_history
        /\ IF execution_history[t] = <<>>
           THEN tasks[t].status = PENDING
           ELSE execution_history[t][Len(execution_history[t])].status = tasks[t].status

\* C7: the execution history is a faithful log: a transition call that succeeds
\* appends exactly one entry (the new status, the actor) and stamps updated_at, a
\* call that fails and every other step append nothing, so the history has one
\* entry per successful transition since creation and its last entry is the
\* task's current status.
C7_HistoryFaithful == []C7_LastEntry /\ [][\A t \in TaskIds : C7_Step(t)]_vars

\* a task went through create, assign, cancel and one more recorded transition
C7_Witness ==
    \E t \in DOMAIN tasks :
        /\ Len(execution_history[t]) = 2
        /\ execution_history[t][1] = [status |-> IN_PROGRESS, updated_by |-> "system"]
        /\ execution_history[t][2].status = CANCELLED
        /\ tasks[t].updated_at = 1
        /\ ret.op = "cancel_task" /\ ret.ok

\* C8: execute_task, entered for an in_progress task by its assignee with a
\* handler registered for a required capability, calls the handler once and
\* leaves the task completed with the handler's return value as result, or
\* failed with the exception's message as error_message.
C8_ExecuteRecordsOutcome ==
    [][ /\ \A t \in TaskIds, a \in AgentIds :
             (ExecuteBegin(t, a) /\ a \in DOMAIN tm_exec') =>
                 /\ t \in DOMAIN tasks
                 /\ tasks[t].status = IN_PROGRESS
                 /\ tasks[t].assigned_to = a
                 /\ \E i \in DOMAIN tasks[t].required_capabilities :
                       /\ tasks[t].required_capabilities[i] = tm_exec'[a].handler
                       /\ tm_exec'[a].handler \in task_handlers
        /\ \A a \in DOMAIN tm_exec :
             tm_exec[a].task_id \in DOMAIN tasks =>
                 /\ \A r \in Results :
                       ExecuteReturn(a, r) =>
                           /\ tm_exec[a].calls = 1
                           /\ tasks'[tm_exec[a].task_id].status = COMPLETED
                           /\ tasks'[tm_exec[a].task_id].result = r
                           /\ ret' = Ret("execute_task", tm_exec[a].task_id, a, TRUE, r)
                 /\ \A e \in ErrorMsgs :
                       ExecuteRaise(a, e) =>
                           /\ tm_exec[a].calls = 1
                           /\ tasks'[tm_exec[a].task_id].status = FAILED
                           /\ tasks'[tm_exec[a].task_id].error_message = e
                           /\ ret' = Ret("execute_task", tm_exec[a].task_id, a, FALSE, e)
      ]_vars

\* create, assign to a1, execute by a1 whose handler returned r1
C8_Witness ==
    \E t \in DOMAIN tasks :
        /\ ret = Ret("execute_task", t, "a1", TRUE, "r1")
        /\ tasks[t].status = COMPLETED
        /\ tasks[t].result = "r1"
        /\ tasks[t].assigned_to = "a1"
        /\ execution_history[t] = << [status |-> IN_PROGRESS, updated_by |-> "system"],
                                     [status |-> COMPLETED, updated_by |-> "a1"] >>

(***************************************************************************)
(* Claims about the AgentRegistry (checked under SpecRegistry).            *)
(***************************************************************************)

\* the item satisfies every predicate of the query: it holds all required
\* capabilities, is at the query's location and has the query's tags (both
\* compared ignoring case) and is active when only active agents are asked for
Matches(q, item) ==
    /\ q.required_capabilities \subseteq {cap.type : cap \in Range(item.capabilities)}
    /\ q.location # None =>
          (item.location # None /\ Lower(item.location) = Lower(q.location))
    /\ \A tag \in q.tags : \E t \in item.tags : Lower(t) = Lower(tag)
    /\ q.active_only => item.status = "active"

\* C9: discover_agents returns an agent if and only if its record satisfies
\* every predicate of the query, subject only to truncation to max_results: the
\* agents returned all match, and their number is the smaller of max_results and
\* the number of matching records.
C9_DiscoveryConjunctive ==
    ret.op = "discover_agents" =>
        LET q == ret.val.query
            returned == {ret.val.agents[n] : n \in DOMAIN ret.val.agents}
            matching == {i.agent_id : i \in {x \in table : Matches(q, x)}}
        IN  /\ returned \subseteq matching
            /\ Cardinality(returned) =
                  IF Cardinality(matching) < q.max_results
                  THEN Cardinality(matching) ELSE q.max_results

\* C10: a successful register_agent leaves exactly one record with the card's
\* agent_id, whose capabilities and derived capability-type, location and tag
\* index fields are those of the card of this call, whatever record that
\* agent_id had before; the other records are untouched.
C10_RegisterReplaces ==
    [][ \A id \in AgentIds, shape \in CardShapes, created \in CardTimes :
          (ret'.op = "register_agent" /\ ret'.ok /\ RegisterAgent(id, shape, created)) =>
              /\ Cardinality({i \in table' : i.agent_id = id}) = 1
              /\ \A i \in table' :
                    i.agent_id = id =>
                        /\ i.capabilities = shape.capabilities
                        /\ i.capability_types =
                              {cap.type : cap \in Range(shape.capabilities)}
                        /\ i.tags = shape.tags
                        /\ i.tag_index = {Lower(tag) : tag \in shape.tags}
                        /\ i.location = shape.location
                        /\ i.location_index =
                              IF shape.location = None THEN Absent ELSE Lower(shape.location)
              /\ {i \in table' : i.agent_id # id} = {i \in table : i.agent_id # id} ]_vars

\* a1 was registered with two capabilities, a location and a tag, and has just
\* been registered again with one capability, no location and no tag
C10_Witness ==
    /\ ret = RegRet("register_agent", "a1", TRUE, "a1")
    /\ replaced = {{TEXT_PROCESSING, DATA_ANALYSIS}}
    /\ \E i \in table :
          /\ i.agent_id = "a1"
          /\ i.capability_types = {TEXT_PROCESSING}
          /\ i.tag_index = {}
          /\ i.location_index = Absent

\* the derived index fields of an item agree with its primary fields
IndexesAgree(item) ==
    /\ item.capability_types = {cap.type : cap \in Range(item.capabilities)}
    /\ item.location_index =
          IF item.location = None THEN Absent ELSE Lower(item.location)
    /\ item.tag_index = {Lower(tag) : tag \in item.tags}

\* C13: in every reachable registry state the derived index fields of each
\* record agree with its primary fields: the capability-type index is the set
\* of types of its capabilities, the location index its lowercased location,
\* and there is a tag flag exactly for each of its tags.
C13_IndexesAgree == \A item \in table : IndexesAgree(item)

\* C18: discover_agents with active_only = True never returns an agent whose
\* last_seen is older than the liveness timeout, whether or not cleanup has
\* removed it.
C18_StaleNotDiscovered ==
    (ret.op = "discover_agents" /\ ret.val.query.active_only) =>
        \A timeout \in Timeouts :
            \A n \in DOMAIN ret.val.agents :
                \A i \in table :
                    i.agent_id = ret.val.agents[n] => ~ (i.last_seen < now - timeout)

\* C19: the number of agents discover_agents returns is the smaller of
\* max_results and the number of records that pass the query's filter: the
\* result is cut to max_results after the matching.
C19_TruncatesAfterMatching ==
    ret.op = "discover_agents" =>
        LET q == ret.val.query
            passing == Cardinality({i \in table : FilterExpression(q, i)})
        IN  ret.val.total_found = IF passing < q.max_results THEN passing ELSE q.max_results

(***************************************************************************)
(* Claims about the AgentRegistry checked under SpecLifecycle,             *)
(* SpecValidation and SpecStore.                                           *)
(***************************************************************************)

\* C11: update_agent and update_agent_heartbeat on an agent_id that has no
\* record return the failure "Agent not found" and leave the table as it was, so
\* no record is created for an agent that was never registered or that a
\* deregistration or a cleanup, finished or still running, has removed.
C11_NotFoundCreatesNothing ==
    [][ \A id \in AgentIds :
          (/\ ret'.op \in {"update_agent", "update_agent_heartbeat"}
           /\ ret'.agent = id
           /\ ~ \E i \in table : i.agent_id = id
           /\ \/ UpdateAgentHeartbeat(id)
              \/ \E updates \in LifeUpdateDicts : UpdateAgent(id, updates)) =>
              /\ ~ ret'.ok
              /\ ret'.val = "Agent not found"
              /\ table' = table ]_vars

\* a cleanup found a1 and a2 inactive and has deleted a1, not yet a2; the
\* heartbeat of a1 that came then was refused, and a1 has no record
C11_Witness ==
    /\ ret = RegRet("update_agent_heartbeat", "a1", FALSE, "Agent not found")
    /\ cleanup.running
    /\ cleanup.inactive_agents = <<"a1", "a2">>
    /\ cleanup.next = 2
    /\ cleanup.deleted_count = 1
    /\ ~ \E i \in table : i.agent_id = "a1"
    /\ \E i \in table : i.agent_id = "a2"

\* C12: update_agent_heartbeat on an existing record changes only last_seen of
\* that record, to the current time; every other field of it (status,
\* capabilities, derived index fields, created_at) and every other record stay
\* as they were.  The same holds for update_agent with a last_seen of the
\* caller's: the current time is stored, not the caller's value.
C12_HeartbeatIsolation ==
    [][ \A id \in AgentIds :
          (/\ ret'.op \in {"update_agent_heartbeat", "update_agent"}
           /\ ret'.ok
           /\ ret'.agent = id
           /\ \/ UpdateAgentHeartbeat(id)
              \/ UpdateAgent(id, [k \in {"last_seen"} |-> 0])) =>
              table' = { IF i.agent_id = id THEN [i EXCEPT !.last_seen = now] ELSE i :
                           i \in table } ]_vars

\* a1, created at 0 and made inactive, has just sent a heartbeat at time 1,
\* while a2 was last seen at 0
C12_Witness ==
    /\ ret.op = "update_agent_heartbeat"
    /\ ret.ok
    /\ ret.agent = "a1"
    /\ now = 1
    /\ \E i \in table :
          i.agent_id = "a1" /\ i.created_at = 0 /\ i.last_seen = 1 /\ i.status = "inactive"
    /\ \E i \in table : i.agent_id = "a2" /\ i.last_seen = 0

\* C14: register_agent on an agent_id that has a record keeps the created_at
\* of that record, whatever the created_at of the card it is called with.
C14_CreatedAtImmutable ==
    [][ \A id \in AgentIds, shape \in LifeShapes, created \in LifeCardTimes :
          (/\ ret'.op = "register_agent"
           /\ ret'.ok
           /\ ret'.agent = id
           /\ RegisterAgent(id, shape, created)) =>
              \A old \in table, new \in table' :
                  (old.agent_id = id /\ new.agent_id = id) =>
                      new.created_at = old.created_at ]_vars

\* the messages of the validation rules that the card shape violates
ViolatedRules(shape) ==
    (IF shape.name \in {"", " "} THEN {"Agent name is required"} ELSE {})
    \cup (IF shape.description \in {"", " "} THEN {"Agent description is required"} ELSE {})
    \cup (IF Len(shape.capabilities) = 0 THEN {"At least one capability is required"} ELSE {})
    \cup { CapabilityNameError(n) :
             n \in {m \in DOMAIN shape.capabilities :
                       shape.capabilities[m].name \in {"", " "}} }
    \cup { CapabilityDescriptionError(n) :
             n \in {m \in DOMAIN shape.capabilities :
                       shape.capabilities[m].description \in {"", " "}} }
    \cup (IF shape.success_rate < 0 \/ shape.success_rate > 100
          THEN {"Success rate must be between 0 and 1"} ELSE {})
    \cup (IF shape.max_concurrent_tasks < 1
          THEN {"Max concurrent tasks must be at least 1"} ELSE {})

\* C15: register_agent with a card that violates a validation rule returns a
\* failure whose error list has one message for every violated rule, no more
\* and no less, and writes nothing: the table, with any record of that
\* agent_id, is as before.
C15_InvalidCardRejected ==
    [][ ret'.op = "register_agent" =>
          \A name \in Names, description \in Descriptions,
             capabilities \in CapabilityLists, success_rate \in SuccessRates,
             max_concurrent_tasks \in ConcurrentTasks, created \in CardTimes :
            LET shape == Shape(name, description, capabilities, None, {},
                               success_rate, max_concurrent_tasks)
            IN
              (ViolatedRules(shape) # {} /\ RegisterAgent(ret'.agent, shape, created)) =>
                  /\ ~ ret'.ok
                  /\ Range(ret'.val) = ViolatedRules(shape)
                  /\ Len(ret'.val) = Cardinality(ViolatedRules(shape))
                  /\ table' = table ]_vars

\* a1 has a record and a registration of a1 with a card violating six rules
\* has just been refused
C15_Witness ==
    /\ ret.op = "register_agent"
    /\ ~ ret.ok
    /\ ret.agent = "a1"
    /\ Len(ret.val) = 6
    /\ \E i \in table : i.agent_id = "a1"

\* C16: the scan of cleanup_inactive_agents(timeout) selects exactly the
\* records last seen before now minus timeout; the call deletes selected
\* records only, one per successful delete, and nothing else; and when it
\* returns, every selected record was deleted or its delete failed, so no
\* record last seen before the cutoff remains unless its delete failed.
C16_CleanupDeletesStale ==
    [][ /\ \A timeout \in Timeouts, order \in ScanOrders :
             CleanupScan(timeout, order) =>
                 /\ Range(cleanup'.inactive_agents) =
                        {i.agent_id : i \in {x \in table : x.last_seen < now - timeout}}
                 /\ Len(cleanup'.inactive_agents) =
                        Cardinality(Range(cleanup'.inactive_agents))
                 /\ table' = table
        /\ CleanupDelete =>
               \E id \in Range(cleanup.inactive_agents) :
                   table' = {i \in table : i.agent_id # id}
        /\ (\E err \in StoreErrors : CleanupDeleteFails(err)) => table' = table
        /\ CleanupReturn =>
               /\ table' = table
               /\ cleanup.deleted_count + Cardinality(cleanup.failed) =
                      Len(cleanup.inactive_agents)
               /\ \A i \in table :
                      i.last_seen < cleanup.cutoff => i.agent_id \in cleanup.failed
      ]_vars

\* at time 1 a cleanup with timeout 0 found one inactive agent, a1, deleted it
\* and returned; a2, last seen at 1, is still there
C16_Witness ==
    /\ ret.op = "cleanup_inactive_agents"
    /\ ret.ok
    /\ ret.val.deleted_count = 1
    /\ ret.val.total_inactive = 1
    /\ now = 1
    /\ ~ \E i \in table : i.agent_id = "a1"
    /\ \E i \in table : i.agent_id = "a2" /\ i.last_seen = 1

\* C17: in cleanup_inactive_agents a delete that fails, with whatever error,
\* does not end the batch: the call goes on with the next candidate; and the
\* call returns success with deleted_count the number of deletes that
\* succeeded and total_inactive the number of candidates.
C17_CleanupContinues ==
    [][ /\ \A err \in StoreErrors :
             CleanupDeleteFails(err) =>
                 /\ cleanup'.running
                 /\ cleanup'.inactive_agents = cleanup.inactive_agents
                 /\ cleanup'.next = cleanup.next + 1
                 /\ cleanup'.deleted_count = cleanup.deleted_count
        /\ CleanupReturn =>
               /\ ret'.ok
               /\ ret'.val.total_inactive = Len(cleanup.inactive_agents)
               /\ ret'.val.deleted_count =
                      Len(cleanup.inactive_agents) - Cardinality(cleanup.failed)
               /\ ret'.val.deleted_count <= ret'.val.total_inactive
      ]_vars

\* what the operation gives its caller for an agent_id that has no record
NotFoundResult(op) == IF op = "get_agent" THEN None ELSE "Agent not found"

\* C20: an operation of the registry whose call on the table fails, with
\* whatever error, returns a failure result: no exception leaves it, and the
\* result is not the one the operation gives for an unknown agent_id.  (The
\* result of a validation failure is a list of messages under 'errors', which
\* none of the results here is.)
C20_StoreFailureReturned ==
    [][ \A op \in StoreOps, id \in AgentIds \cup {None}, err \in StoreErrors :
          StoreFails(op, id, err) =>
              /\ ret'.val # Propagated
              /\ ret'.val # NotFoundResult(op) ]_vars

(***************************************************************************)
(* Claims about BaseAgent (checked under SpecAgent and SpecAgentFair).     *)
(***************************************************************************)

\* start() is inside its while loop
InLoop == loop.pc \in {"loop", "process", "handler", "sleep"}

\* C21: once start() is in its loop, the loop goes on until stop(): start()
\* returns only when is_running is false, and, every task handler finishing,
\* each iteration - whatever failed in it: receive, a message, a handler, the
\* registration, the heartbeat - comes back to the test of the loop, from
\* where the running agent receives again.
C21_LoopKeepsIterating ==
    /\ [](loop.pc = "done" => ~agent.is_running)
    /\ ([]<>(loop.pc # "handler")) =>
           /\ (loop.pc \in {"process", "handler", "sleep"}) ~> (loop.pc = "loop")
           /\ (loop.pc = "loop" /\ agent.is_running)
                  ~> (loop.pc = "process" \/ ~agent.is_running)

\* a later iteration: the registration at start had failed, a task handler has
\* raised, and the agent, still running, is back from a receive that failed
C21_Witness ==
    /\ loop.pc = "process"
    /\ agent.is_running
    /\ ~agent.is_registered
    /\ agent.tasks_failed > 0
    /\ ret.op = "receive_messages"
    /\ ret.val.sqs = "raise"

\* C22: a task request is executed once however often the queue delivers it:
\* no task id has its task handler invoked a second time.
C22_ExecutedOnce == \A t \in RequestTaskIds : executed[t] <= 1

\* C23: the agent handles its messages one after the other: the message a
\* process_message was for is the next of the received list, a running task
\* handler keeps the loop where it is until it finishes, and the iteration
\* goes on to the heartbeat and the next receive only when the for loop has
\* passed the last message of the list.
C23_Sequential ==
    [][ /\ (ret'.op = "process_message" /\ loop'.next = loop.next + 1)
              => /\ loop.next <= Len(loop.messages)
                 /\ ret'.val.message = loop.messages[loop.next]
                 /\ loop'.messages = loop.messages
        /\ (loop.pc = "handler" /\ loop' # loop)
              => /\ loop'.pc = "process"
                 /\ loop'.next = loop.next + 1
                 /\ ret'.op = "process_message"
        /\ (loop.pc \in {"process", "handler"} /\ loop'.pc \notin {"process", "handler"})
              => loop.pc = "process" /\ loop.next > Len(loop.messages)
        /\ (loop'.pc = "process" /\ loop.pc \notin {"process", "handler"})
              => loop.pc = "loop" /\ loop'.next = 1 ]_vars

\* the second of two different messages of one batch has just been processed
C23_Witness ==
    /\ loop.pc = "process"
    /\ Len(loop.messages) = 2
    /\ loop.messages[1] # loop.messages[2]
    /\ loop.next = 3
    /\ ret.op = "process_message"
    /\ ret.val.message = loop.messages[2]

\* stop() has been called
Stopped == loop.pc # "init" /\ ~agent.is_running

\* the registry holds a record of the agent
Recorded == \E i \in table : i.agent_id = AgentId

\* C24: stop() on a running agent leaves is_running false for good; when it
\* deregistered the agent, is_registered is false and the record is gone; from
\* then on the loop starts no receive, no step (the heartbeat of the iteration
\* in flight included) brings a record back, and, every task handler
\* finishing, start() returns.
C24_StopEndsLoop ==
    /\ [][ /\ (\E outcome \in CallOutcomes : Stop(outcome))
                 => /\ ~agent'.is_running
                    /\ ret'.val.deregistered => ~agent'.is_registered /\ ~Recorded'
           /\ Stopped
                 => /\ Stopped'
                    /\ ~(loop.pc = "loop" /\ loop'.pc = "process")
                    /\ ~Recorded => ~Recorded' ]_vars
    /\ ([]<>(loop.pc # "handler")) => (Stopped ~> (loop.pc = "done"))

\* stop() has just deregistered the agent while the loop is at a heartbeat
\* message of its batch, with the periodic heartbeat still to come
C24_Witness ==
    /\ ret.op = "stop"
    /\ ret.val.deregistered
    /\ AtMessage
    /\ Current.message_type = HEARTBEAT

\* the step is the return of a process_message
ProcessedStep == ret'.op = "process_message" /\ loop'.next = loop.next + 1

\* C25: every task request the default handler processes while the channel
\* works is answered by exactly one task_response, to the request's sender,
\* with its correlation_id and the task's id; the status is rejected exactly
\* when the agent lacks a required capability (no task handler is invoked and
\* no counter changes then), and else completed or failed as execute_task said.
C25_OneResponse ==
    [][ (/\ ProcessedStep
         /\ ret'.val.message.message_type = TASK_REQUEST
         /\ ret'.val.channel)
          => /\ Len(sent') = 1
             /\ sent'[1].message_type = TASK_RESPONSE
             /\ sent'[1].recipient_id = ret'.val.message.sender_id
             /\ sent'[1].correlation_id = ret'.val.message.correlation_id
             /\ sent'[1].task_id = ret'.val.message.task.task_id
             /\ sent'[1].status = "rejected" <=> ~CanHandle(ret'.val.message.task)
             /\ sent'[1].status = "rejected"
                    => ~ret'.val.invoked /\ agent' = agent /\ executed' = executed
             /\ sent'[1].status # "rejected"
                    => sent'[1].status =
                           IF ret'.val.result.success THEN "completed" ELSE "failed" ]_vars

\* a body is a message that passes validate_message at the current time
PassesValidation(body) ==
    /\ body.json
    /\ body.message_id # "" /\ body.sender_id # ""
    /\ body.message_type \in MessageType
    /\ body.timestamp <= now

\* C26: receive_messages returns exactly the messages of the batch that
\* deserialize and pass validation, in the order received; a message that
\* does not is dropped alone.
C26_InvalidDroppedAlone ==
    (ret.op = "receive_messages" /\ ret.val.sqs = "ok")
        => ret.val.messages = SelectSeq(ret.val.batch, PassesValidation)

\* C27: process_message returns True exactly when the message type has a
\* handler and the handler returned without raising; in every case the for
\* loop of start() goes on.
C27_ProcessResult ==
    [][ ProcessedStep
          => /\ ret'.ok <=> (/\ ret'.val.message.message_type \in message_handlers
                             /\ ~ret'.val.raised)
             /\ loop'.pc = "process"
             /\ agent'.is_running = agent.is_running ]_vars

\* process_message returned False because the handler raised
C27_Witness ==
    /\ ret.op = "process_message"
    /\ ~ret.ok
    /\ ret.val.raised
    /\ ret.val.message.message_type = HEARTBEAT

\* C28: an execute_task that invoked a task handler moves exactly one counter
\* by one: tasks_completed when the handler returned (the result is the
\* success with the handler's value), tasks_failed when it raised (the result
\* is the failure with the exception's message); the exception goes no
\* further, and no step lowers a counter.
C28_OneCounter ==
    [][ /\ \A r \in Results, channel \in BOOLEAN :
               HandlerReturn(r, channel)
                 => /\ ret'.val.result = ExecuteResult(TRUE, r, None)
                    /\ agent'.tasks_completed = agent.tasks_completed + 1
                    /\ agent'.tasks_failed = agent.tasks_failed
        /\ \A e \in ErrorMsgs, channel \in BOOLEAN :
               HandlerRaise(e, channel)
                 => /\ ret'.val.result = ExecuteResult(FALSE, None, e)
                    /\ agent'.tasks_failed = agent.tasks_failed + 1
                    /\ agent'.tasks_completed = agent.tasks_completed
                    /\ ret'.ok /\ loop'.pc = "process"
        /\ agent'.tasks_completed >= agent.tasks_completed
        /\ agent'.tasks_failed >= agent.tasks_failed ]_vars

\* a task handler has just raised in an agent that had completed a task
C28_Witness ==
    /\ ret.op = "process_message"
    /\ ret.val.invoked
    /\ ~ret.val.result.success
    /\ agent.tasks_completed = 1
    /\ agent.tasks_failed = 1

\* C29: an execute_task that finds no handler for any required capability
\* returns the failure that says so and counts the task as failed.
C29_NoHandlerCounts ==
    [][ (ProcessedStep /\ ret'.val.result.error = NoHandlerError)
          => /\ ~ret'.val.result.success
             /\ agent'.tasks_failed = agent.tasks_failed + 1
             /\ agent'.tasks_completed = agent.tasks_completed ]_vars

\* C30: no task handler hangs the agent: an execution that does not finish is
\* abandoned, so the loop is not inside a task handler forever.
C30_HungHandlerAbandoned == (loop.pc = "handler") ~> (loop.pc # "handler")

(***************************************************************************)
(* Claims about creation, purging, scheduling and the registry's users      *)
(***************************************************************************)

\* C37: create_task never alters a task that is already stored, an explicit
\* task_id of an existing task included: the stored task is not replaced, its
\* status is not reset to pending, and its assignee, result and execution
\* history are not cleared.
C37_CreateKeepsExisting ==
    [][ \A t \in DOMAIN tasks :
          Recreated(t) => /\ tasks'[t] = tasks[t]
                          /\ execution_history'[t] = execution_history[t] ]_vars

\* C38: cleanup_inactive_agents never deletes a live agent, whatever the
\* interleaving: the record of an agent that heartbeated or registered again
\* between the scan and the delete, whose last_seen is therefore not older
\* than the cutoff, is not deleted.
C38_CleanupSparesLive ==
    [][ CleanupDelete
          => \A item \in table :
                ( /\ item.agent_id = cleanup.inactive_agents[cleanup.next]
                  /\ ~CleanupFilter(item, cleanup.cutoff) )
                    => item \in table' ]_vars

\* a call of register() or of deregister() on the agent
RegisterStep == \E outcome \in CallOutcomes : Register(outcome)
DeregisterStep == \E outcome \in CallOutcomes : Deregister(outcome)

\* C31: is_registered changes only on success.  It becomes true only in a
\* register() whose registry call succeeded and false only in a deregister()
\* whose registry call succeeded; a register() that failed or was skipped for
\* want of a registry returns False and leaves the flag as it was; a
\* deregister() that failed returns False and leaves the flag true; a
\* deregister() on an agent that is not registered returns True without
\* calling the registry.
C31_FlagFollowsSuccess ==
    [][ /\ (~agent.is_registered /\ agent'.is_registered)
            => (RegisterStep /\ ret'.ok /\ ret'.val.called /\ Recorded')
        /\ (agent.is_registered /\ ~agent'.is_registered)
            => (DeregisterStep /\ ret'.ok /\ ret'.val.called /\ ~Recorded')
        /\ (\E outcome \in {"error", "raise"} : Register(outcome))
            => (~ret'.ok /\ agent'.is_registered = agent.is_registered /\ table' = table)
        /\ (RegisterStep /\ ~agent.registry)
            => ( /\ ~ret'.ok /\ ~ret'.val.called
                 /\ ~agent'.is_registered /\ table' = table )
        /\ ((\E outcome \in {"error", "raise"} : Deregister(outcome)) /\ agent.is_registered)
            => (~ret'.ok /\ agent'.is_registered /\ table' = table)
        /\ (DeregisterStep /\ ~agent.is_registered)
            => ( /\ ret'.ok /\ ~ret'.val.called
                 /\ ~agent'.is_registered /\ table' = table ) ]_vars

\* a deregister() of the registered agent has failed and the flag is still
\* set, the record being still stored
C31_Witness ==
    /\ ret.op = "deregister"
    /\ ~ret.ok
    /\ ret.val.called
    /\ agent.is_registered
    /\ Recorded

\* C39: a running agent does not stay silently unregistered: when the record
\* of an agent whose is_registered is true is removed while its loop keeps
\* running, the record eventually exists again (or the agent has been stopped).
C39_RecordComesBack ==
    (agent.is_registered /\ agent.is_running /\ ~Recorded)
        ~> (Recorded \/ ~agent.is_running)

\* C36: cleanup_completed_tasks(days) removes exactly the terminal tasks
\* (completed, failed, cancelled) whose updated_at precedes now - days,
\* together with their execution histories, and returns the number removed;
\* a pending or in_progress task is never removed, and what stays is unchanged.
C36_PurgeExactlyOldTerminal ==
    [][ \A days \in PurgeDays :
          CleanupCompletedTasks(days)
            => LET old == { t \in DOMAIN tasks :
                              /\ tasks[t].status \in {COMPLETED, FAILED, CANCELLED}
                              /\ tasks[t].updated_at < now - days }
               IN  /\ DOMAIN tasks' = DOMAIN tasks \ old
                   /\ DOMAIN execution_history' = DOMAIN execution_history \ old
                   /\ ret'.val = Cardinality(old)
                   /\ \A t \in DOMAIN tasks' :
                         /\ tasks'[t] = tasks[t]
                         /\ execution_history'[t] = execution_history[t]
                   /\ \A t \in DOMAIN tasks :
                         tasks[t].status \in {PENDING, IN_PROGRESS} => t \in DOMAIN tasks' ]_vars

\* a purge has removed one task and kept another that is as old but still in
\* progress
C36_Witness ==
    /\ ret.op = "cleanup_completed_tasks"
    /\ ret.val = 1
    /\ \E t \in DOMAIN tasks : tasks[t].status = IN_PROGRESS /\ tasks[t].updated_at < now

\* the step was a call of get_optimal_agent_for_task on agents of the caller
SelectedStep == ret.op = "get_optimal_agent_for_task"

\* the positions of the available agents whose capabilities hold every
\* required capability
Holders(val) ==
    { n \in DOMAIN val.available_agents :
        \A c \in Range(val.required_capabilities) :
            \E k \in DOMAIN val.available_agents[n].capabilities :
                val.available_agents[n].capabilities[k].value = c }

\* (1 - current_load) * success_rate, in ten-thousandths; an agent that does
\* not state them has load 0 and success rate 0.5
ScoreOf(candidate) ==
    (100 - (IF "current_load" \in DOMAIN candidate THEN candidate.current_load ELSE 0))
        * (IF "success_rate" \in DOMAIN candidate THEN candidate.success_rate ELSE 50)

\* C32: get_optimal_agent_for_task returns no agent exactly when no candidate
\* holds all required capabilities; otherwise it returns a candidate that holds
\* them all and whose score (1 - current_load) * success_rate is maximal among
\* those (0.72 against 0.475: the 0.72 agent); a candidate lacking a required
\* capability is never returned.
C32_SelectsBestHolder ==
    SelectedStep
      => LET val == ret.val
             holders == Holders(val)
         IN  /\ (val.agent_id = None) <=> (holders = {})
             /\ holders # {}
                  => \E n \in holders :
                        /\ val.available_agents[n].agent_id = val.agent_id
                        /\ \A m \in holders :
                              ScoreOf(val.available_agents[m])
                                  <= ScoreOf(val.available_agents[n])
             /\ \A n \in DOMAIN val.available_agents \ holders :
                   val.available_agents[n].agent_id # val.agent_id

\* the 0.72 agent a1 was chosen over the 0.475 agent a2 listed before it and
\* over a3, which has the highest score and lacks data_analysis
C32_Witness ==
    /\ SelectedStep
    /\ ret.val.required_capabilities = <<DATA_ANALYSIS, TEXT_PROCESSING>>
    /\ IdsOf(ret.val.available_agents) = <<"a2", "a3", "a1">>
    /\ ret.val.agent_id = "a1"

\* C33: the selection is deterministic under ties: the same set of candidates
\* yields the same agent_id in whatever order the candidates are listed.
C33_OrderIndependent ==
    SelectedStep
      => \A p \in Permutations(DOMAIN ret.val.available_agents) :
            get_optimal_agent_for_task(
                ret.val.required_capabilities,
                [n \in DOMAIN ret.val.available_agents |-> ret.val.available_agents[p[n]]])
              = ret.val.agent_id

\* the score of a queued task at one instant, times 36000
ScoreAt(task, at) ==
    TenHours * (CASE task.priority = "low" -> 1 [] task.priority = "normal" -> 2
                  [] task.priority = "high" -> 3 [] task.priority = "urgent" -> 4)
        + (IF \E deadline \in task.deadline : deadline < at THEN 10 * TenHours ELSE 0)
        + (at - task.created_at)

\* the position of a task in a list of different tasks
PositionIn(task, list) == CHOOSE n \in DOMAIN list : list[n] = task

\* C34: prioritize_tasks returns a permutation of its input ordered by
\* non-increasing score, the score being the priority weight (low 1, normal 2,
\* high 3, urgent 4) plus 10 for a deadline that has passed plus 0.1 per hour of
\* age, all taken at the time of the call; tasks with equal scores keep their
\* input order.
C34_StableByScore ==
    ret.op = "prioritize_tasks"
      => \E at \in SchedTimes :
            LET val == ret.val IN
            /\ Len(val.result) = Len(val.tasks)
            /\ Range(val.result) = Range(val.tasks)
            /\ \A i, j \in DOMAIN val.result :
                  i < j => /\ ScoreAt(val.result[i], at) >= ScoreAt(val.result[j], at)
                           /\ ScoreAt(val.result[i], at) = ScoreAt(val.result[j], at)
                                => PositionIn(val.result[i], val.tasks)
                                       < PositionIn(val.result[j], val.tasks)

\* C40: the scheduler composes with the registry: when the record of an agent,
\* as register_agent stored it, has every required capability among its
\* capability types, get_optimal_agent_for_task applied to the records the
\* registry returns finds a suitable agent and returns an agent_id, not None.
C40_RegisteredAgentSelected ==
    ret.op = "get_optimal_registered"
      => ( (\E n \in DOMAIN ret.val.available_agents :
               Range(ret.val.required_capabilities)
                   \subseteq ret.val.available_agents[n].capability_types)
             => ret.val.agent_id # None )

\* the oracle was absent or disabled, or raised, in the call ret tells of
OracleDown == ~ret.val.call.bedrock_enabled \/ ret.val.call.analysis = "raise"

\* C35: every call site of the capability-extraction oracle falls back: when
\* the oracle is absent, disabled or raises, AI discovery and recommendations
\* still return a successful result taken from the registry with the caller's
\* capabilities only, and the agent's AI task processing still executes the
\* task through the plain path.
C35_OracleFallsBack ==
    /\ (ret.op \in {"ai_discovery", "get_recommendations"} /\ OracleDown
          /\ ret.val.call.described /\ ret.val.call.max_agents >= 1)
         => (~ret.val.result.raised /\ ret.val.result.success)
    /\ (ret.op = "process_task_with_ai" /\ OracleDown
          /\ AgentFindHandler(<<AgentCapabilities[1].type>>) # None)
         => ret.val.result.executed

====
